---- MODULE Spec2Model ----
(***************************************************************************)
(* A model of the playlist downloader: the session loop of main.py         *)
(* (PlaylistDownloadService._download_tracks), the per-track resolution of *)
(* youtube_downloader.py (YouTubeDownloader.download_track), the value     *)
(* types of models.py and the playlist merge of spotify_extractor.py.      *)
(*                                                                         *)
(* Python strings are TLA+ strings; TLC evaluates Len, \o and SubSeq on    *)
(* them, so a character of s is SubSeq(s, k, k).  Python's None is the     *)
(* reserved value None below, which no string of the model equals.         *)
(*                                                                         *)
(* External collaborators (the yt-dlp search, the yt-dlp download, the     *)
(* progress bar of tqdm, the identity service) answer nondeterministically *)
(* with every outcome their call site can observe, exceptions included.    *)
(* A user interrupt (KeyboardInterrupt) is not modelled.                   *)
(***************************************************************************)
EXTENDS Integers, Sequences, FiniteSets, TLC

(***************************************************************************)
(* Bounds of the model.                                                    *)
(***************************************************************************)
\* longest track list of a session
MaxTracks == 2
\* number of successive sessions (processes) run over the same download folder
MaxSessions == 2
\* longest list of playlist URLs handed to extract_multiple_playlists
MaxPlaylists == 2
\* longest playlist returned by the catalogue
MaxPlaylistLen == 2
\* most output lines of one search command (the search asks for five results)
MaxResults == 2
\* most tuples in one answer of the identity service
MaxTuples == 2
\* most lines of the playlists file
MaxLines == 2
\* longest audio file handed to the fingerprint sampler, in milliseconds
MaxAudioMs == 12
\* longest configured fingerprint sample, in milliseconds
MaxSampleMs == 7

(***************************************************************************)
(* Program constants.                                                      *)
(***************************************************************************)
\* models.py:36-37, the length cap of a file name before its extension
MaxFilenameLen == 150
\* youtube_downloader.py:120, queries[:3]
MaxQueries == 3

None == "<<None>>"

(***************************************************************************)
(* Strings.                                                                *)
(***************************************************************************)
CharAt(s, k) == SubSeq(s, k, k)

\* an f-string field: str(None) is "None"
PyStr(x) == IF x = None THEN "None" ELSE x

RECURSIVE RemoveChars(_, _)
\* re.sub(r'[...]', '', s) for a character class
RemoveChars(s, bad) ==
  IF Len(s) <= 1 THEN (IF s \in bad THEN "" ELSE s)
  ELSE RemoveChars(SubSeq(s, 1, Len(s) \div 2), bad)
         \o RemoveChars(SubSeq(s, Len(s) \div 2 + 1, Len(s)), bad)

RECURSIVE LStrip(_, _)
LStrip(s, chars) ==
  IF s # "" /\ CharAt(s, 1) \in chars THEN LStrip(Tail(s), chars) ELSE s

RECURSIVE RStrip(_, _)
RStrip(s, chars) ==
  IF s # "" /\ CharAt(s, Len(s)) \in chars
  THEN RStrip(SubSeq(s, 1, Len(s) - 1), chars) ELSE s

\* str.strip(chars)
Strip(s, chars) == RStrip(LStrip(s, chars), chars)

(***************************************************************************)
(* models.py                                                               *)
(***************************************************************************)
DownloadStatus ==
  {"PENDING", "DOWNLOADING", "SUCCESS", "FAILED", "VERIFIED", "VERIFICATION_FAILED"}

\* Track.__str__
TrackStr(track) == PyStr(track.artist) \o " - " \o PyStr(track.title)

InvalidFilenameChars == {"<", ">", ":", "\"", "/", "\\", "|", "?", "*"}

\* Track.to_filename
to_filename(track) ==
  LET safe1 == RemoveChars(TrackStr(track), InvalidFilenameChars)
      safe2 == Strip(safe1, {".", " "})
      safe3 == IF Len(safe2) > MaxFilenameLen
               THEN SubSeq(safe2, 1, MaxFilenameLen) ELSE safe2
  IN  safe3 \o ".mp3"

\* DownloadResult.is_success
is_success(res) == res.status \in {"SUCCESS", "VERIFIED"}

\* SessionStats()
NewStats ==
  [total_tracks |-> 0, successful_downloads |-> 0, failed_downloads |-> 0,
   verified_downloads |-> 0, verification_failures |-> 0]

(***************************************************************************)
(* youtube_downloader.py: the query generator                              *)
(***************************************************************************)
UpperLetters == "ABCDEFGHIJKLMNOPQRSTUVWXYZ"
LowerLetters == "abcdefghijklmnopqrstuvwxyz"

\* str.lower() of one character (ASCII letters)
LowerChar(c) ==
  LET ks == {k \in 1..Len(UpperLetters) : CharAt(UpperLetters, k) = c}
  IN  IF ks = {} THEN c ELSE CharAt(LowerLetters, CHOOSE k \in ks : TRUE)

RECURSIVE LowerStr(_)
LowerStr(s) ==
  IF s = "" THEN "" ELSE LowerChar(CharAt(s, 1)) \o LowerStr(Tail(s))

MinOf(S) == CHOOSE m \in S : \A n \in S : m <= n

\* the literal lit (lower case) matches s at position p, ignoring case
MatchesLiteralAt(s, p, lit) ==
  /\ p >= 1
  /\ p + Len(lit) - 1 <= Len(s)
  /\ LowerStr(SubSeq(s, p, p + Len(lit) - 1)) = lit

\* '.*?' followed by lit, from position from: the start of the nearest match
\* of lit that no line break separates from from ('.' matches no newline);
\* 0 when there is none
LazyFind(s, from, lit) ==
  LET ps == {p \in from..Len(s) :
               /\ MatchesLiteralAt(s, p, lit)
               /\ \A k \in from..(p - 1) : CharAt(s, k) # "\n"}
  IN  IF ps = {} THEN 0 ELSE MinOf(ps)

RECURSIVE MatchRest(_, _, _, _)
\* the segments pat[k..] matched lazily from position pos: the index of the
\* last matched character, 0 when there is no match
MatchRest(s, pos, pat, k) ==
  IF k > Len(pat) THEN pos - 1
  ELSE LET f == LazyFind(s, pos, pat[k])
       IN  IF f = 0 THEN 0 ELSE MatchRest(s, f + Len(pat[k]), pat, k + 1)

\* a pattern is its literal segments, '.*?' standing between two of them;
\* the end of its match starting at p, 0 when it does not match at p
MatchEnd(s, p, pat) ==
  IF MatchesLiteralAt(s, p, pat[1])
  THEN MatchRest(s, p + Len(pat[1]), pat, 2) ELSE 0

RECURSIVE ReSubEmpty(_, _)
\* re.sub(pattern, '', s, flags=re.IGNORECASE): leftmost matches, not overlapping
ReSubEmpty(s, pat) ==
  LET starts == {p \in 1..Len(s) : MatchEnd(s, p, pat) # 0}
  IN  IF starts = {} THEN s
      ELSE LET p == MinOf(starts)
               e == MatchEnd(s, p, pat)
           IN  SubSeq(s, 1, p - 1) \o ReSubEmpty(SubSeq(s, e + 1, Len(s)), pat)

\* youtube_downloader.py:125-135
patterns_to_remove ==
  << <<"(feat.", ")">>,
     <<"(ft.", ")">>,
     <<"(featuring", ")">>,
     <<"(remix)">>,
     <<"(remaster)">>,
     <<"(live)">>,
     <<"(acoustic)">>,
     <<"[", "]">>,
     <<"(", "version", ")">> >>

RECURSIVE RemovePatterns(_, _)
\* the loop of lines 138-139 from pattern k on
RemovePatterns(s, k) ==
  IF k > Len(patterns_to_remove) THEN s
  ELSE RemovePatterns(ReSubEmpty(s, patterns_to_remove[k]), k + 1)

Whitespace == {" ", "\t", "\n", "\r"}

RECURSIVE CollapseWhitespace(_)
\* re.sub(r'\s+', ' ', s)
CollapseWhitespace(s) ==
  IF s = "" THEN ""
  ELSE IF CharAt(s, 1) \in Whitespace
       THEN " " \o CollapseWhitespace(LStrip(s, Whitespace))
       ELSE CharAt(s, 1) \o CollapseWhitespace(Tail(s))

\* YouTubeDownloader._clean_search_text, for a string
clean_search_text(text) ==
  Strip(CollapseWhitespace(RemovePatterns(text, 1)), Whitespace)

\* re.sub raises TypeError when handed None instead of a string
clean_raises(text) == text = None

\* the seven templates of lines 106-118
query_templates(cleaned_title, cleaned_artist) ==
  << "\"" \o cleaned_title \o "\" \"" \o cleaned_artist \o "\" official audio",
     "\"" \o cleaned_title \o "\" \"" \o cleaned_artist \o "\" lyrics",
     "\"" \o cleaned_title \o "\" \"" \o cleaned_artist \o "\" official music video",
     cleaned_artist \o " " \o cleaned_title \o " official",
     cleaned_artist \o " " \o cleaned_title,
     cleaned_title \o " " \o cleaned_artist,
     cleaned_title \o " by " \o cleaned_artist >>

\* _generate_search_queries raises when cleaning the title or the artist does
generate_raises(track) == clean_raises(track.title) \/ clean_raises(track.artist)

\* the three least specific templates are kept instead of the first three
first_queries_least_specific(cleaned_title, cleaned_artist) ==
  SubSeq(query_templates(cleaned_title, cleaned_artist), 5, 7)

\* every template is kept
first_queries_all(cleaned_title, cleaned_artist) ==
  query_templates(cleaned_title, cleaned_artist)

\* line 120: queries[:3]
first_queries(cleaned_title, cleaned_artist) ==
  SubSeq(query_templates(cleaned_title, cleaned_artist), 1, MaxQueries)

\* YouTubeDownloader._generate_search_queries
generate_search_queries(track) ==
  first_queries(clean_search_text(track.title), clean_search_text(track.artist))

(***************************************************************************)
(* The tracks of a session.  The catalogue holds two tracks of distinct    *)
(* identity whose names sanitize to one file name, and a track whose title *)
(* the catalogue API delivered as null (spotify_extractor.py:133 stores    *)
(* track_data['name'] as it comes).                                        *)
(***************************************************************************)
Catalogue ==
  { [spotify_id |-> "s1", title |-> "Song",  artist |-> "Band", playlist_name |-> "P1"],
    [spotify_id |-> "s2", title |-> "Song?", artist |-> "Band", playlist_name |-> "P1"],
    [spotify_id |-> "s3", title |-> None,    artist |-> "Band", playlist_name |-> "P1"] }

\* the lists extract_multiple_playlists can hand to a session: no identity twice
TrackLists ==
  UNION { {ts \in [1..n -> Catalogue] :
             \A a, b \in 1..n : a # b => ts[a].spotify_id # ts[b].spotify_id}
          : n \in 1..MaxTracks }

Filenames == {to_filename(t) : t \in Catalogue}

\* track.to_filename() of each track of the catalogue
FilenameOf == [t \in Catalogue |-> to_filename(t)]

\* the tracks of the catalogue for which _generate_search_queries raises
GenerateRaises == [t \in Catalogue |-> generate_raises(t)]

\* the queries the generator produces for each track it accepts
GeneratedQueries ==
  [t \in Catalogue |-> IF generate_raises(t) THEN <<>> ELSE generate_search_queries(t)]

\* a file of the download folder: absent, of size zero, a truncated
\* (non-empty) output, or a complete audio file
FileStates == {"absent", "empty", "partial", "full"}

\* the existence check looks in the wrong place and never finds the file
path_exists_never(fs, path) == FALSE

\* os.path.exists
path_exists(fs, path) == fs[path] # "absent"

\* the size of the file is not looked at
size_positive_always(fs, path) == TRUE

\* os.path.getsize(path) > 0
size_positive(fs, path) == fs[path] \in {"partial", "full"}

\* DownloadResult(track, status, file_path, error_message, youtube_url)
DownloadResult(st, path, msg, url) ==
  [status |-> st, file_path |-> path, error_message |-> msg, youtube_url |-> url]

\* video_info is None or unbound: no candidate is held
NoCandidate == [webpage_url |-> None]

\* no DownloadResult has been bound to `result` in this iteration
NoResult == DownloadResult("NONE", None, None, None)

VARIABLES
  cfg,              \* config.fingerprint_verification, FingerprintService.enabled
  tracks,           \* the deduplicated track list of the session
  session,          \* the number of the running session (process)
  pc,               \* the position of the session in _download_tracks / download_track
  i,                \* enumerate(tracks, 1): the index of the track being processed
  stats,            \* self.stats: SessionStats
  failed_tracks,    \* the local list failed_tracks of _download_tracks
  status,           \* per track, the status of the DownloadResult bound for it ("NONE": none)
  files,            \* the download folder: file name -> FileStates
  failed_downloads, \* YouTubeDownloader.failed_downloads
  queries,          \* search_queries of the running download_track
  q,                \* the index of the query being tried
  video_info,       \* the candidate the search of query q returned
  result,           \* the DownloadResult bound to `result` in this iteration
  log,              \* history: the collaborator calls of the running download_track
  existed,          \* history: the canonical file was there when download_track began
  raised,           \* history: the tracks whose iteration entered the except clause
  prev,             \* history: per track, its status at the end of the previous session
  handed,           \* history: the indices of the tracks handed to download_track
  ex_in,            \* extract_multiple_playlists: per URL, what extract_playlist does
  ex_pc,            \* the position of extract_multiple_playlists
  ex_k,             \* enumerate(urls, 1): the index of the URL being processed
  all_playlists,    \* its local all_playlists
  all_tracks,       \* its local all_tracks
  unique_tracks     \* its local unique_tracks, the list it returns

VARIABLES
  sy_out,           \* _search_youtube: the exit and the stdout lines of the search command
  sy_pc,            \* the position of _search_youtube
  videos,           \* its local list videos
  sy_k,             \* the index of the video its selection loop examines
  sy_ret,           \* what it returns
  gq_track,         \* _generate_search_queries: its argument track
  gq_pc,            \* the position of _generate_search_queries
  clean_title,      \* its local clean_title
  clean_artist,     \* its local clean_artist
  gq_ret,           \* the list it returns
  fp_env,           \* the verifier: configuration, libraries, and the expected track
  results,          \* the tuples the identity service answered with
  fp_pc,            \* the position of FingerprintService.verify_download
  enabled,          \* FingerprintService.enabled
  fp_k,             \* the index of the tuple _process_results examines
  best_match,       \* best_match of _process_results, then match of verify_download
  best_score,       \* best_score of _process_results
  fp_calls,         \* history: the file reads and service calls of verify_download
  fp_ret,           \* what verify_download returns
  run_env,          \* the process: credentials, services, playlists file, catalogue
  run_pc,           \* the position of main() / run()
  playlist_urls,    \* playlist_urls of run()
  run_tracks,       \* tracks of run(): the unique tracks extracted
  loop_entered,     \* history: _download_tracks was called
  exit_code,        \* the exit status of the process
  reported,         \* history: the missing settings __init__ logged
  failed_file,      \* the file failed_downloads.txt of the download folder
  run_no,           \* the number of the process run over the download folder
  failed_at_end,    \* failed_tracks of _download_tracks when its loop ended
  resolved,         \* history: per track, download_track returned a file for it
  run_complete      \* history: _download_tracks and the report ran to their end

VARIABLES
  fn_track,         \* Track.to_filename: the artist and the title of self
  fn_pc,            \* the position of to_filename
  fn_ret            \* what it returns

VARIABLES
  audio_len,          \* _generate_fingerprint: len(audio) of the loaded file, in ms
  sample_duration_ms, \* its local sample_duration_ms
  sw_pc,              \* the position of the sampling step
  sample              \* the part of the file `audio` is after lines 101-103

\* the state of a download session
sessvars == <<cfg, tracks, session, pc, i, stats, failed_tracks, status, files,
              failed_downloads, queries, q, video_info, result, log, existed,
              raised, prev, handed>>

\* the state of a playlist extraction
exvars == <<ex_in, ex_pc, ex_k, all_playlists, all_tracks, unique_tracks>>

\* the state of one run of _search_youtube
searchvars == <<sy_out, sy_pc, videos, sy_k, sy_ret>>

\* the state of one run of _generate_search_queries
queryvars == <<gq_track, gq_pc, clean_title, clean_artist, gq_ret>>

\* the state of a FingerprintService and one run of its verify_download
verifyvars == <<fp_env, results, fp_pc, enabled, fp_k, best_match, best_score, fp_calls, fp_ret>>

\* the state of one run of main()
runvars == <<run_env, run_pc, playlist_urls, run_tracks, loop_entered, exit_code, reported,
             failed_file, run_no, failed_at_end, resolved, run_complete>>

\* the state of one call of Track.to_filename
fnvars == <<fn_track, fn_pc, fn_ret>>

\* the state of the sampling step of _generate_fingerprint
samplevars == <<audio_len, sample_duration_ms, sw_pc, sample>>

vars == <<sessvars, exvars, searchvars, queryvars, verifyvars, runvars, fnvars, samplevars>>

\* what each part of the program leaves alone
nonsessvars == <<exvars, searchvars, queryvars, verifyvars, runvars, fnvars, samplevars>>
nonexvars == <<sessvars, searchvars, queryvars, verifyvars, runvars, fnvars, samplevars>>
nonsearchvars == <<sessvars, exvars, queryvars, verifyvars, runvars, fnvars, samplevars>>
nonqueryvars == <<sessvars, exvars, searchvars, verifyvars, runvars, fnvars, samplevars>>
nonverifyvars == <<sessvars, exvars, searchvars, queryvars, runvars, fnvars, samplevars>>
nonrunvars == <<sessvars, exvars, searchvars, queryvars, verifyvars, fnvars, samplevars>>
nonfnvars == <<sessvars, exvars, searchvars, queryvars, verifyvars, runvars, samplevars>>
nonsamplevars == <<sessvars, exvars, searchvars, queryvars, verifyvars, runvars, fnvars>>

Track == tracks[i]

\* a key a JSON object or a dict does not have
Missing == "<<missing>>"

\* _search_youtube returned None: no video_info
NoVideoInfo == [json |-> "none", title |-> Missing, duration_json |-> "missing", duration |-> 0]

\* no FingerprintMatch: best_match = None
NoMatch == [title |-> None, artist |-> None, confidence |-> 0]

\* no search is running
SearchIdle ==
  /\ sy_out = [exit |-> "zero", lines |-> <<>>]
  /\ sy_pc = "idle"
  /\ videos = <<>>
  /\ sy_k = 0
  /\ sy_ret = NoVideoInfo

\* no query generation is running
QueriesIdle ==
  /\ gq_track = [title |-> "", artist |-> ""]
  /\ gq_pc = "idle"
  /\ clean_title = ""
  /\ clean_artist = ""
  /\ gq_ret = <<>>

\* no verification is running
VerifyIdle ==
  /\ fp_env = [enable_fingerprinting |-> FALSE, fingerprint_verification |-> FALSE,
               acoustid_api_key |-> "", libraries |-> FALSE,
               expected_track |-> [title |-> "", artist |-> ""]]
  /\ results = <<>>
  /\ fp_pc = "idle"
  /\ enabled = FALSE
  /\ fp_k = 0
  /\ best_match = NoMatch
  /\ best_score = 0
  /\ fp_calls = <<>>
  /\ fp_ret = FALSE

\* there is no file failed_downloads.txt
NoFile == [exists |-> FALSE, lines |-> <<>>]

\* no audio file is being sampled
SampleIdle ==
  /\ audio_len = 0
  /\ sample_duration_ms = 0
  /\ sw_pc = "idle"
  /\ sample = [start |-> 0, stop |-> 0]

\* to_filename is not being called
FilenameIdle ==
  /\ fn_track = [artist |-> "", title |-> ""]
  /\ fn_pc = "idle"
  /\ fn_ret = ""

\* no process is running
RunIdle ==
  /\ run_env = [spotify_client_id |-> "", spotify_client_secret |-> "",
                services |-> FALSE, file |-> "missing", lines |-> <<>>]
  /\ run_pc = "idle"
  /\ playlist_urls = <<>>
  /\ run_tracks = <<>>
  /\ loop_entered = FALSE
  /\ exit_code = 0
  /\ reported = <<>>
  /\ failed_file = NoFile
  /\ run_no = 0
  /\ failed_at_end = <<>>
  /\ resolved = <<>>
  /\ run_complete = FALSE

\* no extraction is running
ExtractIdle ==
  /\ ex_in = <<>>
  /\ ex_pc = "idle"
  /\ ex_k = 0
  /\ all_playlists = <<>>
  /\ all_tracks = <<>>
  /\ unique_tracks = <<>>

\* a session at the head of the download loop (main.py:73, 118-127)
Init ==
  /\ ExtractIdle /\ SearchIdle /\ QueriesIdle /\ VerifyIdle /\ RunIdle /\ FilenameIdle /\ SampleIdle
  /\ cfg \in [fingerprint_verification : BOOLEAN, verifier_enabled : BOOLEAN]
  /\ tracks \in TrackLists
  /\ session = 1
  /\ pc = "describe"
  /\ i = 1
  /\ stats = [NewStats EXCEPT !.total_tracks = Len(tracks)]
  /\ failed_tracks = <<>>
  /\ status = [k \in 1..Len(tracks) |-> "NONE"]
  /\ files = [f \in Filenames |-> "absent"]
  /\ failed_downloads = <<>>
  /\ queries = <<>>
  /\ q = 0
  /\ video_info = NoCandidate
  /\ result = NoResult
  /\ log = <<>>
  /\ existed = FALSE
  /\ raised = {}
  /\ prev = [k \in 1..Len(tracks) |-> "NONE"]
  /\ handed = <<>>

(***************************************************************************)
(* youtube_downloader.py: download_track                                   *)
(***************************************************************************)
\* what download_track sees of _search_youtube(query): a candidate the
\* selector accepted (line 174), None (no acceptable result, line 176, or
\* the search command failed, line 180), or an exception that is no
\* CalledProcessError (a result without a string title, a missing yt-dlp)
SearchOutcomes == {"found", "none", "raised"}

\* the candidate a search of query k returns
Candidate(qs, k) == [webpage_url |-> "https://youtu.be/watch?q=" \o qs[k]]

\* one run of the download tool (line 234): its exit, and what it does to
\* the file at the output path.  "raised" is an exception that is no
\* CalledProcessError (line 212's KeyError, an OSError of subprocess.run)
ToolOutcomes ==
  { [exit |-> "zero",    writes |-> "full"],
    [exit |-> "zero",    writes |-> "empty"],
    [exit |-> "zero",    writes |-> "nothing"],
    [exit |-> "nonzero", writes |-> "nothing"],
    [exit |-> "nonzero", writes |-> "partial"],
    [exit |-> "raised",  writes |-> "nothing"] }

\* the download folder after the tool ran for final_path
ToolEffect(fs, final_path, tool) ==
  IF tool.writes = "nothing" THEN fs
  ELSE [fs EXCEPT ![final_path] = tool.writes]

\* YouTubeDownloader._download_video: what it returns ("raised": it raises)
download_video(fs, track, tool) ==
  LET final_path == to_filename(track)
      fs2 == ToolEffect(fs, final_path, tool)
  IN  IF tool.exit = "raised" THEN "raised"
      ELSE IF tool.exit = "nonzero" THEN None
      ELSE IF path_exists(fs2, final_path) /\ size_positive(fs2, final_path)
           THEN final_path
           ELSE None

\* the message of the TypeError re.sub raises for None
TypeErrorMessage == "expected string or bytes-like object"

\* the loop stops one query early
has_next_query_one_short(qs, k) == k + 1 < Len(qs)

\* for query in search_queries: is there a query after the k-th
has_next_query(qs, k) == k < Len(qs)

\* return <res>: the caller binds it (main.py:133) and the locals are gone
Return(res, fd) ==
  /\ result' = res
  /\ status' = [status EXCEPT ![i] = res.status]
  /\ failed_downloads' = fd
  /\ pc' = "stats"
  /\ queries' = <<>>
  /\ q' = 0
  /\ video_info' = NoCandidate

\* the failure is returned without being recorded in failed_downloads
ReturnExhaustedUnrecorded ==
  Return(DownloadResult("FAILED", None, "No suitable video found", None),
         failed_downloads)

\* lines 79-85: every query failed
ReturnExhausted ==
  Return(DownloadResult("FAILED", None, "No suitable video found", None),
         Append(failed_downloads, TrackStr(Track)))

\* without the outer except clause the exception leaves download_track and
\* reaches the except clause of the caller's loop
RaiseToCaller(msg) ==
  /\ pc' = "handler"
  /\ queries' = <<>>
  /\ q' = 0
  /\ video_info' = NoCandidate
  /\ UNCHANGED <<result, status, failed_downloads>>

\* lines 87-95: the outer except clause
ReturnError(msg) ==
  Return(DownloadResult("FAILED", None, msg, None),
         Append(failed_downloads, TrackStr(Track)))

\* the first failed query fails the track
QueryFailedGivesUp == ReturnExhausted

\* query q ended without a file (lines 64, 66): the loop goes on with the
\* next query, or ends
QueryFailed ==
  IF has_next_query(queries, q)
  THEN /\ q' = q + 1
       /\ pc' = "dt_search"
       /\ video_info' = NoCandidate
       /\ UNCHANGED <<result, status, failed_downloads, queries>>
  ELSE ReturnExhausted

\* without the try of line 62 the exception reaches the outer except clause
QueryRaisedPropagates == ReturnError("search failed")

\* lines 74-76: the exception of one query is caught and logged, and
\* `continue` goes on with the loop as after any other failed query
QueryRaised == QueryFailed

\* `if video_info:`, line 64
candidate_found(out) == out = "found"

\* the returned path is ignored and the loop goes on
download_succeeded_never(file_path) == FALSE

\* `if file_path:`, line 66
download_succeeded(file_path) == file_path \notin {None, "raised"}

\* lines 41-58: the existence check and the query generation (the list of
\* queries is never empty: the first MaxQueries of seven templates)
DT_Start ==
  /\ pc = "dt_start"
  /\ log' = <<>>
  /\ existed' = (files[FilenameOf[Track]] # "absent")
  /\ LET expected_path == FilenameOf[Track]
     IN  IF path_exists(files, expected_path)
         THEN Return(DownloadResult("SUCCESS", expected_path, None, None),
                     failed_downloads)
         ELSE IF GenerateRaises[Track]
              THEN ReturnError(TypeErrorMessage)
              ELSE /\ queries' = GeneratedQueries[Track]
                   /\ q' = 1
                   /\ video_info' = NoCandidate
                   /\ pc' = "dt_search"
                   /\ UNCHANGED <<result, status, failed_downloads>>
  /\ UNCHANGED <<cfg, tracks, session, i, stats, failed_tracks, files, raised, prev>>
  /\ handed' = Append(handed, i)
  /\ UNCHANGED nonsessvars

\* line 63-64 with the except clause of lines 74-76
DT_Search ==
  /\ pc = "dt_search"
  /\ \E out \in SearchOutcomes :
       /\ log' = Append(log, [op |-> "search", q |-> q, query |-> queries[q],
                              exit |-> "none", out |-> out])
       /\ IF out = "raised" THEN QueryRaised
          ELSE IF candidate_found(out)
               THEN /\ video_info' = Candidate(queries, q)
                    /\ pc' = "dt_download"
                    /\ UNCHANGED <<result, status, failed_downloads, queries, q>>
               ELSE QueryFailed
  /\ UNCHANGED <<cfg, tracks, session, i, stats, failed_tracks, files,
                 existed, raised, prev>>
  /\ UNCHANGED handed
  /\ UNCHANGED nonsessvars

\* lines 65-73 with the except clause of lines 74-76
DT_Download ==
  /\ pc = "dt_download"
  /\ \E tool \in ToolOutcomes :
       LET file_path == download_video(files, Track, tool)
       IN  /\ files' = ToolEffect(files, to_filename(Track), tool)
           /\ log' = Append(log, [op |-> "download", q |-> q, query |-> queries[q],
                                  exit |-> tool.exit,
                                  out |-> IF file_path \in {None, "raised"}
                                          THEN IF file_path = None THEN "none" ELSE "raised"
                                          ELSE "path"])
           /\ IF file_path = "raised" THEN QueryRaised
              ELSE IF download_succeeded(file_path)
                   THEN Return(DownloadResult("SUCCESS", file_path, None,
                                              video_info.webpage_url),
                               failed_downloads)
                   ELSE QueryFailed
  /\ UNCHANGED <<cfg, tracks, session, i, stats, failed_tracks, existed, raised, prev>>
  /\ UNCHANGED handed
  /\ UNCHANGED nonsessvars

(***************************************************************************)
(* fingerprint_service.py: what _download_tracks sees of verify_download   *)
(***************************************************************************)
\* line 71-72: True without any check when verification is off or the
\* service is not enabled; otherwise the verdict of the identification
verify_download_results(c) ==
  IF ~c.fingerprint_verification \/ ~c.verifier_enabled THEN {TRUE} ELSE BOOLEAN

(***************************************************************************)
(* main.py: _download_tracks                                               *)
(***************************************************************************)
\* the loop takes the next track; after the last one the with block ends
NextTrack ==
  /\ IF i < Len(tracks)
     THEN i' = i + 1 /\ pc' = "describe"
     ELSE i' = i /\ pc' = "completed"
  /\ result' = NoResult

\* line 130: pbar.set_description, which writes to the progress stream
SetDescription ==
  /\ pc = "describe"
  /\ \E ok \in BOOLEAN :
       IF ok THEN pc' = "dt_start" ELSE pc' = "handler"
  /\ UNCHANGED <<cfg, tracks, session, i, stats, failed_tracks, status, files,
                 failed_downloads, queries, q, video_info, result, log, existed,
                 raised, prev>>
  /\ UNCHANGED handed
  /\ UNCHANGED nonsessvars

\* lines 136-137 and 150: the result is counted
count_result(st, res) ==
  IF is_success(res)
  THEN [st EXCEPT !.successful_downloads = @ + 1]
  ELSE [st EXCEPT !.failed_downloads = @ + 1]

\* a stored file is verified whether or not verification is configured
verifies_unconfigured(res) == is_success(res) /\ res.file_path # None

\* the outcome is written into the Track kept for the recovery file
keep_failed_marked(failed, track) ==
  Append(failed, [track EXCEPT !.playlist_name = "failed"])

\* lines 151, 168: failed_tracks.append(track), the Track as it is
keep_failed(failed, track) == Append(failed, track)

\* the result is verified whether or not the download succeeded
verifies_failed_too(res) == cfg.fingerprint_verification

\* lines 136 and 140: verify_download is called for the result
verifies(res) ==
  is_success(res) /\ res.file_path # None /\ cfg.fingerprint_verification

\* lines 136-137, 150-155: the result is counted, a failed track is kept for
\* the recovery file and, without verification, the inter-download delay
UpdateStats ==
  /\ pc = "stats"
  /\ stats' = count_result(stats, result)
  /\ failed_tracks' = IF is_success(result) THEN failed_tracks
                      ELSE keep_failed(failed_tracks, Track)
  /\ pc' = IF verifies(result) THEN "verify" ELSE "progress"
  /\ log' = <<>>
  /\ existed' = FALSE
  /\ UNCHANGED <<cfg, tracks, session, i, status, files, failed_downloads, queries, q,
                 video_info, result, raised, prev>>
  /\ UNCHANGED handed
  /\ UNCHANGED nonsessvars

\* a rejected download is taken back from the successful ones
count_verification_uncounts(st, verified) ==
  IF verified
  THEN [st EXCEPT !.verified_downloads = @ + 1]
  ELSE [st EXCEPT !.verification_failures = @ + 1, !.successful_downloads = @ - 1]

\* a rejection is counted, an acceptance is not
count_verification_rejections_only(st, verified) ==
  IF verified THEN st
  ELSE [st EXCEPT !.verification_failures = @ + 1]

\* lines 142 and 145: the verdict is counted
count_verification(st, verified) ==
  IF verified
  THEN [st EXCEPT !.verified_downloads = @ + 1]
  ELSE [st EXCEPT !.verification_failures = @ + 1]

\* lines 143, 146: result.status after the verification
status_after(res, verified) ==
  IF verified THEN "VERIFIED" ELSE "VERIFICATION_FAILED"

\* lines 141-155: verify_download, its verdict counted and recorded in the
\* result (line 148 is a comment: the file is not removed), the delay
VerifyDownload ==
  /\ pc = "verify"
  /\ \E verified \in verify_download_results(cfg) :
       /\ stats' = count_verification(stats, verified)
       /\ result' = [result EXCEPT !.status = status_after(result, verified)]
       /\ status' = [status EXCEPT ![i] = status_after(result, verified)]
  /\ pc' = "progress"
  /\ UNCHANGED <<cfg, tracks, session, i, failed_tracks, files, failed_downloads,
                 queries, q, video_info, log, existed, raised, prev>>
  /\ UNCHANGED handed
  /\ UNCHANGED nonsessvars

\* lines 158-163: pbar.update and pbar.set_postfix
UpdateProgress ==
  /\ pc = "progress"
  /\ \E ok \in BOOLEAN :
       IF ok THEN NextTrack
       ELSE pc' = "handler" /\ UNCHANGED <<i, result>>
  /\ UNCHANGED <<cfg, tracks, session, stats, failed_tracks, status, files,
                 failed_downloads, queries, q, video_info, log, existed, raised, prev>>
  /\ UNCHANGED handed
  /\ UNCHANGED nonsessvars

\* lines 165-169: the except clause of the loop body; its pbar.update
\* writes to the progress stream as the one of line 158 does, and an
\* exception it raises leaves the loop and _download_tracks
HandleException ==
  /\ pc = "handler"
  /\ stats' = [stats EXCEPT !.failed_downloads = @ + 1]
  /\ failed_tracks' = keep_failed(failed_tracks, Track)
  /\ raised' = raised \cup {i}
  /\ \E ok \in BOOLEAN :
       IF ok THEN NextTrack
       ELSE pc' = "aborted" /\ UNCHANGED <<i, result>>
  /\ UNCHANGED <<cfg, tracks, session, status, files, failed_downloads, queries,
                 q, video_info, log, existed, prev>>
  /\ UNCHANGED handed
  /\ UNCHANGED nonsessvars

\* the same playlists are run again in a new process over the same folder
NewSession ==
  /\ pc \in {"completed", "aborted"}
  /\ session < MaxSessions
  /\ session' = session + 1
  /\ pc' = "describe"
  /\ i' = 1
  /\ stats' = [NewStats EXCEPT !.total_tracks = Len(tracks)]
  /\ failed_tracks' = <<>>
  /\ prev' = status
  /\ status' = [k \in 1..Len(tracks) |-> "NONE"]
  /\ failed_downloads' = <<>>
  /\ result' = NoResult
  /\ raised' = {}
  /\ UNCHANGED <<cfg, tracks, files, queries, q, video_info, log, existed>>
  /\ handed' = <<>>
  /\ UNCHANGED nonsessvars

Next ==
  \/ SetDescription
  \/ DT_Start
  \/ DT_Search
  \/ DT_Download
  \/ UpdateStats
  \/ VerifyDownload
  \/ UpdateProgress
  \/ HandleException
  \/ NewSession

Spec == Init /\ [][Next]_vars

(***************************************************************************)
(* spotify_extractor.py: extract_multiple_playlists                        *)
(***************************************************************************)
TrackIds == {t.spotify_id : t \in Catalogue}

\* the tracks extract_playlist had parsed into its local list when it raised:
\* none (an invalid id, a failed playlist request) or some (a failed request
\* for a later page, line 59)
ParsedBeforeFailure == {<<>>, <<"s2">>}

\* extract_playlist(url) raises (an invalid id, an API or network error)
ExtractFailure(ids) == [ok |-> FALSE, ids |-> ids]

\* the identities of the valid tracks of a playlist, in playlist order (a
\* playlist may hold a track twice)
PlaylistContents ==
  UNION { [1..n -> TrackIds] : n \in 0..MaxPlaylistLen }

\* extract_playlist(url) returns the playlist of these tracks
ExtractSuccess(ids) == [ok |-> TRUE, ids |-> ids]

\* per URL of the input, what extract_playlist does with it
ExtractInputs ==
  UNION { [1..n -> {ExtractSuccess(c) : c \in PlaylistContents}
                      \cup {ExtractFailure(c) : c \in ParsedBeforeFailure}]
          : n \in 0..MaxPlaylists }

\* the k-th URL of the input and the name of its playlist
PlaylistUrl(k) == "https://open.spotify.com/playlist/" \o ToString(k)
PlaylistName(k) == "P" \o ToString(k)

\* _parse_track: the Track of identity id found in the playlist named name
ParseTrack(id, name) ==
  [(CHOOSE t \in Catalogue : t.spotify_id = id) EXCEPT !.playlist_name = name]

\* extract_playlist for the k-th URL, when it does not raise
extract_playlist(input, k) ==
  [playlist |-> [name |-> PlaylistName(k), url |-> PlaylistUrl(k),
                 platform |-> "spotify", track_count |-> Len(input[k].ids)],
   tracks |-> [n \in 1..Len(input[k].ids) |->
                 ParseTrack(input[k].ids[n], PlaylistName(k))]]

\* the membership test is lost: every track is kept
not_seen_always(track, seen_ids) == TRUE

\* `track.spotify_id not in seen_ids`, line 95
not_seen(track, seen_ids) == track.spotify_id \notin seen_ids

RECURSIVE remove_duplicates(_, _, _)
\* lines 91-97: the loop over all_tracks, with unique_tracks and seen_ids
remove_duplicates(rest, unique, seen_ids) ==
  IF rest = <<>> THEN unique
  ELSE IF not_seen(Head(rest), seen_ids)
       THEN remove_duplicates(Tail(rest), Append(unique, Head(rest)),
                              seen_ids \cup {Head(rest).spotify_id})
       ELSE remove_duplicates(Tail(rest), unique, seen_ids)

\* the session state of a specification that only extracts
SessionIdle ==
  /\ cfg = [fingerprint_verification |-> FALSE, verifier_enabled |-> FALSE]
  /\ tracks = <<>>
  /\ session = 1
  /\ pc = "idle"
  /\ i = 0
  /\ stats = NewStats
  /\ failed_tracks = <<>>
  /\ status = <<>>
  /\ files = [f \in Filenames |-> "absent"]
  /\ failed_downloads = <<>>
  /\ queries = <<>>
  /\ q = 0
  /\ video_info = NoCandidate
  /\ result = NoResult
  /\ log = <<>>
  /\ existed = FALSE
  /\ raised = {}
  /\ prev = <<>>
  /\ handed = <<>>

\* extract_multiple_playlists is called with a list of URLs (lines 73-74)
InitExtract ==
  /\ SessionIdle /\ SearchIdle /\ QueriesIdle /\ VerifyIdle /\ RunIdle /\ FilenameIdle /\ SampleIdle
  /\ ex_in \in ExtractInputs
  /\ ex_pc = "loop"
  /\ ex_k = 1
  /\ all_playlists = <<>>
  /\ all_tracks = <<>>
  /\ unique_tracks = <<>>

\* the lines after the call run even when it raised
extract_playlist_returns_always(input, k) == TRUE

\* line 79: the call returns, so that lines 80-84 run; when it raises, the
\* except clause of lines 86-88 goes on with the next URL
extract_playlist_returns(input, k) == input[k].ok

\* lines 76-88: one URL; a failure skips it
ExtractOne ==
  /\ ex_pc = "loop"
  /\ ex_k <= Len(ex_in)
  /\ IF ~extract_playlist_returns(ex_in, ex_k)
     THEN UNCHANGED <<all_playlists, all_tracks>>
     ELSE /\ all_playlists' = Append(all_playlists, extract_playlist(ex_in, ex_k).playlist)
          /\ all_tracks' = all_tracks \o extract_playlist(ex_in, ex_k).tracks
  /\ ex_k' = ex_k + 1
  /\ UNCHANGED <<ex_in, ex_pc, unique_tracks>>
  /\ UNCHANGED nonexvars

\* lines 90-100: the duplicates are removed and the lists returned
RemoveDuplicates ==
  /\ ex_pc = "loop"
  /\ ex_k > Len(ex_in)
  /\ unique_tracks' = remove_duplicates(all_tracks, <<>>, {})
  /\ ex_pc' = "returned"
  /\ UNCHANGED <<ex_in, ex_k, all_playlists, all_tracks>>
  /\ UNCHANGED nonexvars

NextExtract ==
  \/ ExtractOne
  \/ RemoveDuplicates

SpecExtract == InitExtract /\ [][NextExtract]_vars

(***************************************************************************)
(* youtube_downloader.py: _search_youtube and _is_good_match               *)
(***************************************************************************)
\* config.py:33, Config.max_duration
max_duration == 600
\* config.py:34, Config.min_duration
min_duration == 30

\* line 192-195
avoid_indicators ==
  {"reaction", "review", "cover", "karaoke", "instrumental",
   "tutorial", "how to", "lesson", "behind the scenes"}

\* line 201-203
official_indicators ==
  {"official", "vevo", "records", "music", "audio only", "lyrics"}

\* `sub in s` for strings
Contains(s, sub) ==
  \E p \in 1..(Len(s) - Len(sub) + 1) : SubSeq(s, p, p + Len(sub) - 1) = sub

\* line 184: video_info.get('title', '').lower()
title_of(info) ==
  LowerStr(IF info.title = Missing THEN "" ELSE info.title)

\* line 185: video_info.get('duration', 0); a JSON null is None, here 0 with
\* duration_json = "null"
duration_of(info) ==
  IF info.duration_json = "number" THEN info.duration ELSE 0

\* line 188 compares the duration with an int: TypeError when it is None
is_good_match_raises(info) == info.duration_json = "null"

\* line 205
has_official(info) ==
  \E indicator \in official_indicators : Contains(title_of(info), indicator)

\* only a result with an official indicator is accepted
is_good_match_prefers_official(info) ==
  /\ ~(duration_of(info) > max_duration \/ duration_of(info) < min_duration)
  /\ ~\E indicator \in avoid_indicators : Contains(title_of(info), indicator)
  /\ has_official(info)

\* YouTubeDownloader._is_good_match, when it does not raise
is_good_match(info) ==
  IF duration_of(info) > max_duration \/ duration_of(info) < min_duration
  THEN FALSE
  ELSE IF \E indicator \in avoid_indicators : Contains(title_of(info), indicator)
       THEN FALSE
       ELSE LET has_official_ == has_official(info) IN TRUE

\* the titles of the search results
ResultTitles ==
  {"Song Official Audio", "Song", "Song (Karaoke Version)",
   "Song Cover (Official Video)", "Band - DISCOVERY", Missing}

\* the duration fields of the search results: seconds, null (a live stream
\* has no duration), or no such key
ResultDurations ==
  {[duration_json |-> "number", duration |-> d] : d \in {20, 30, 45, 600, 601}}
    \cup {[duration_json |-> "null", duration |-> 0],
          [duration_json |-> "missing", duration |-> 0]}

\* a line of the search command's output that is a JSON object
VideoInfos ==
  {[json |-> "object", title |-> t, duration_json |-> d.duration_json,
    duration |-> d.duration] : t \in ResultTitles, d \in ResultDurations}

\* a line json.loads rejects (lines 168-169)
GarbageLine ==
  [json |-> "garbage", title |-> Missing, duration_json |-> "missing", duration |-> 0]

\* _is_good_match for each result the search can print: "True", "False", or
\* "raised"
good_match ==
  [info \in VideoInfos |->
     IF is_good_match_raises(info) THEN "raised"
     ELSE IF is_good_match(info) THEN "True" ELSE "False"]

\* the output of a search command that exits with zero: its lines, in the
\* ranked order of the index
SearchOutputs ==
  UNION { [1..n -> VideoInfos \cup {GarbageLine}] : n \in 0..MaxResults }

\* the search command exits with a non-zero status (CalledProcessError)
SearchFailure == [exit |-> "nonzero", lines |-> <<>>]

\* lines 162-169: the lines that parse, in order
parse_lines(lines) == SelectSeq(lines, LAMBDA line : line.json = "object")

\* _search_youtube(query) is called (line 63)
InitSearch ==
  /\ SessionIdle /\ ExtractIdle /\ QueriesIdle /\ VerifyIdle /\ RunIdle /\ FilenameIdle /\ SampleIdle
  /\ \/ sy_out = SearchFailure
     \/ \E lines \in SearchOutputs : sy_out = [exit |-> "zero", lines |-> lines]
  /\ sy_pc = "run"
  /\ videos = <<>>
  /\ sy_k = 0
  /\ sy_ret = NoVideoInfo

\* lines 159-169 and 178-180: the command runs and its output is parsed
SY_Run ==
  /\ sy_pc = "run"
  /\ IF sy_out.exit = "nonzero"
     THEN /\ sy_pc' = "returned"
          /\ UNCHANGED <<videos, sy_k>>
     ELSE /\ videos' = parse_lines(sy_out.lines)
          /\ sy_k' = 1
          /\ sy_pc' = "select"
  /\ UNCHANGED <<sy_out, sy_ret>>
  /\ UNCHANGED nonsearchvars

\* lines 172-174: one turn of the selection loop; an exception of
\* _is_good_match is no CalledProcessError and leaves _search_youtube
SY_Select ==
  /\ sy_pc = "select"
  /\ sy_k <= Len(videos)
  /\ IF good_match[videos[sy_k]] = "raised"
     THEN sy_pc' = "raised" /\ UNCHANGED <<sy_k, sy_ret>>
     ELSE IF good_match[videos[sy_k]] = "True"
          THEN sy_ret' = videos[sy_k] /\ sy_pc' = "returned" /\ UNCHANGED sy_k
          ELSE sy_k' = sy_k + 1 /\ UNCHANGED <<sy_pc, sy_ret>>
  /\ UNCHANGED <<sy_out, videos>>
  /\ UNCHANGED nonsearchvars

\* line 176: no video passed
SY_ReturnNone ==
  /\ sy_pc = "select"
  /\ sy_k > Len(videos)
  /\ sy_pc' = "returned"
  /\ UNCHANGED <<sy_out, videos, sy_k, sy_ret>>
  /\ UNCHANGED nonsearchvars

NextSearch ==
  \/ SY_Run
  \/ SY_Select
  \/ SY_ReturnNone

SpecSearch == InitSearch /\ [][NextSearch]_vars

(***************************************************************************)
(* youtube_downloader.py: _generate_search_queries, step by step           *)
(***************************************************************************)
\* titles as the catalogue delivers them: plain, with the decorations the
\* cleanup removes, made of a decoration only, and null
TrackTitles ==
  {"Song", "Song (feat. X) [Remix]", "[Remix]", "Song (Live)",
   "Song (Radio Version)", "(ft. A) (REMASTER)", " Two   Words ",
   "Song [a] b [c]", "Song (Acoustic", None}

\* artist strings: line 130 of spotify_extractor.py joins the artists' names
TrackArtists == {"Band", "A, B", "[unknown]", "The (Live) Band"}

\* _generate_search_queries(track) is called (line 58)
InitQueries ==
  /\ SessionIdle /\ ExtractIdle /\ SearchIdle /\ VerifyIdle /\ RunIdle /\ FilenameIdle /\ SampleIdle
  /\ gq_track \in [title : TrackTitles, artist : TrackArtists]
  /\ gq_pc = "clean_title"
  /\ clean_title = ""
  /\ clean_artist = ""
  /\ gq_ret = <<>>

\* line 102
GQ_CleanTitle ==
  /\ gq_pc = "clean_title"
  /\ IF clean_raises(gq_track.title)
     THEN gq_pc' = "raised" /\ UNCHANGED clean_title
     ELSE /\ clean_title' = clean_search_text(gq_track.title)
          /\ gq_pc' = "clean_artist"
  /\ UNCHANGED <<gq_track, clean_artist, gq_ret>>
  /\ UNCHANGED nonqueryvars

\* line 103
GQ_CleanArtist ==
  /\ gq_pc = "clean_artist"
  /\ IF clean_raises(gq_track.artist)
     THEN gq_pc' = "raised" /\ UNCHANGED clean_artist
     ELSE /\ clean_artist' = clean_search_text(gq_track.artist)
          /\ gq_pc' = "build"
  /\ UNCHANGED <<gq_track, clean_title, gq_ret>>
  /\ UNCHANGED nonqueryvars

\* lines 106-120
GQ_Build ==
  /\ gq_pc = "build"
  /\ gq_ret' = first_queries(clean_title, clean_artist)
  /\ gq_pc' = "returned"
  /\ UNCHANGED <<gq_track, clean_title, clean_artist>>
  /\ UNCHANGED nonqueryvars

NextQueries ==
  \/ GQ_CleanTitle
  \/ GQ_CleanArtist
  \/ GQ_Build

SpecQueries == InitQueries /\ [][NextQueries]_vars

(***************************************************************************)
(* models.py: FingerprintMatch.matches_track                               *)
(***************************************************************************)
\* the length of the first word of s, which starts with no white space
WordLen(s) ==
  LET ends == {n \in 1..Len(s) : CharAt(s, n) \in Whitespace}
  IN  IF ends = {} THEN Len(s) ELSE MinOf(ends) - 1

RECURSIVE split(_)
\* set(text.split()): the words of a string
split(text) ==
  LET t == LStrip(text, Whitespace)
  IN  IF t = "" THEN {}
      ELSE {SubSeq(t, 1, WordLen(t))} \cup split(SubSeq(t, WordLen(t) + 1, Len(t)))

\* the words are compared as they are written, upper and lower case apart
words_case_sensitive(text) == split(text)

\* lines 62-63: set(text.lower().split())
words(text) == split(LowerStr(text))

\* FingerprintMatch._text_similarity: the quotient num / den of the sizes of
\* the intersection and of the union of the word sets, 0 / 1 for 0.0
text_similarity(text1, text2) ==
  IF text1 \in {None, ""} \/ text2 \in {None, ""} THEN [num |-> 0, den |-> 1]
  ELSE LET words1 == words(text1)
           words2 == words(text2)
       IN  IF words1 = {} \/ words2 = {} THEN [num |-> 0, den |-> 1]
           ELSE [num |-> Cardinality(words1 \cap words2),
                 den |-> Cardinality(words1 \cup words2)]

\* similarity >= threshold, the threshold in hundredths
at_least(similarity, threshold) == similarity.num * 100 >= threshold * similarity.den

\* FingerprintMatch.matches_track
matches_track(match, track, threshold) ==
  /\ at_least(text_similarity(match.title, track.title), threshold)
  /\ at_least(text_similarity(match.artist, track.artist), threshold)

(***************************************************************************)
(* fingerprint_service.py                                                  *)
(***************************************************************************)
\* fingerprint_service.py:147, the confidence a tuple must exceed: 0.7, in hundredths
MinConfidence == 70
\* fingerprint_service.py:82, threshold=0.7, in hundredths
MatchThreshold == 70

\* the tracks whose download is verified
ExpectedTracks ==
  { [title |-> "Shape of You", artist |-> "Ed Sheeran"],
    [title |-> "",             artist |-> "Ed Sheeran"] }

\* the titles and artists the identity service names
RecordingNames ==
  { [title |-> "Shape of You",                 artist |-> "Ed Sheeran"],
    [title |-> "SHAPE OF YOU",                 artist |-> "ed sheeran"],
    [title |-> "Shape of You (Cover)",         artist |-> "Someone Else"],
    [title |-> "Shape of You (Cover)",         artist |-> "Ed Sheeran"],
    [title |-> "Shape of You - Acoustic Live", artist |-> "Ed  Sheeran"],
    [title |-> None,                           artist |-> None] }

\* the confidences the identity service gives, in hundredths
Scores == {50, 70, 71, 90}

\* a tuple (score, recording_id, title, artist) of the service's answer
ResultTuples ==
  {[kind |-> "tuple", score |-> sc, title |-> n.title, artist |-> n.artist] :
     sc \in Scores, n \in RecordingNames}

\* the place in the answer where taking the next tuple raises (the answer is
\* parsed while it is iterated)
BrokenTuple == [kind |-> "raises", score |-> 0, title |-> None, artist |-> None]

\* the answers of acoustid.match
MatchResults ==
  UNION { [1..n -> ResultTuples \cup {BrokenTuple}] : n \in 0..MaxTuples }

\* what _generate_fingerprint meets: an error of the sample extraction
\* (lines 94-111), an error of the fingerprint computation (lines 115-122),
\* a fingerprint too short to use (line 124), a fingerprint
FingerprintOutcomes == {"sample_raises", "fingerprint_raises", "short", "ok"}

\* `title or 'Unknown'`, lines 149-150
or_unknown(text) == IF text \in {None, ""} THEN "Unknown" ELSE text

\* FingerprintMatch(...) of lines 148-154
FingerprintMatch(tuple) ==
  [title |-> or_unknown(tuple.title), artist |-> or_unknown(tuple.artist),
   confidence |-> tuple.score]

\* a tuple of confidence exactly 0.7 is taken
takes_tuple_at_threshold(score, best) == score > best /\ score >= MinConfidence

\* line 147
takes_tuple(score, best) == score > best /\ score > MinConfidence

\* verification is skipped only when the configuration switches it off
skips_verification_by_flag_only(env, service_enabled) == ~env.fingerprint_verification

\* line 71
skips_verification(env, service_enabled) ==
  ~env.fingerprint_verification \/ ~service_enabled

\* a FingerprintService is about to be constructed (main.py:46)
InitVerify ==
  /\ SessionIdle /\ ExtractIdle /\ SearchIdle /\ QueriesIdle /\ RunIdle /\ FilenameIdle /\ SampleIdle
  /\ fp_env \in [enable_fingerprinting : BOOLEAN, fingerprint_verification : BOOLEAN,
                 acoustid_api_key : {"", "key"}, libraries : BOOLEAN,
                 expected_track : ExpectedTracks]
  /\ results = <<>>
  /\ fp_pc = "construct"
  /\ enabled = FALSE
  /\ fp_k = 0
  /\ best_match = NoMatch
  /\ best_score = 0
  /\ fp_calls = <<>>
  /\ fp_ret = FALSE

\* FingerprintService.__init__, lines 13-28
FP_Construct ==
  /\ fp_pc = "construct"
  /\ enabled' = IF fp_env.enable_fingerprinting /\ fp_env.acoustid_api_key # ""
                THEN fp_env.libraries
                ELSE FALSE
  /\ fp_pc' = "verify"
  /\ UNCHANGED <<fp_env, results, fp_k, best_match, best_score, fp_calls, fp_ret>>
  /\ UNCHANGED nonverifyvars

\* identify_track returns None and verify_download returns False (lines 77-79)
ReturnNotIdentified ==
  /\ fp_ret' = FALSE
  /\ fp_pc' = "returned"

\* verify_download, lines 71-76
FP_Verify ==
  /\ fp_pc = "verify"
  /\ IF skips_verification(fp_env, enabled)
     THEN fp_ret' = TRUE /\ fp_pc' = "returned"
     ELSE fp_pc' = "identify" /\ UNCHANGED fp_ret
  /\ UNCHANGED <<fp_env, results, enabled, fp_k, best_match, best_score, fp_calls>>
  /\ UNCHANGED nonverifyvars

\* identify_track, lines 32-37
FP_Identify ==
  /\ fp_pc = "identify"
  /\ IF ~enabled
     THEN ReturnNotIdentified /\ UNCHANGED fp_calls
     ELSE \E exists \in BOOLEAN :
            /\ fp_calls' = Append(fp_calls, [op |-> "exists",
                                             out |-> IF exists THEN "yes" ELSE "no"])
            /\ IF exists THEN fp_pc' = "fingerprint" /\ UNCHANGED fp_ret
               ELSE ReturnNotIdentified
  /\ UNCHANGED <<fp_env, results, enabled, fp_k, best_match, best_score>>
  /\ UNCHANGED nonverifyvars

\* the calls of _generate_fingerprint for an outcome
FingerprintCalls(outcome) ==
  IF outcome = "sample_raises" THEN <<[op |-> "sample", out |-> "raised"]>>
  ELSE <<[op |-> "sample", out |-> "ok"],
         [op |-> "fingerprint",
          out |-> IF outcome = "fingerprint_raises" THEN "raised" ELSE outcome]>>

\* lines 43-45 with _generate_fingerprint (lines 91-138), which catches its
\* errors and returns (None, 0) for them
FP_Fingerprint ==
  /\ fp_pc = "fingerprint"
  /\ \E outcome \in FingerprintOutcomes :
       /\ fp_calls' = fp_calls \o FingerprintCalls(outcome)
       /\ IF outcome = "ok" THEN fp_pc' = "match" /\ UNCHANGED fp_ret
          ELSE ReturnNotIdentified
  /\ UNCHANGED <<fp_env, results, enabled, fp_k, best_match, best_score>>
  /\ UNCHANGED nonverifyvars

\* lines 48-53: the identity service is asked; its error is caught at line 65
FP_Match ==
  /\ fp_pc = "match"
  /\ \/ /\ fp_calls' = Append(fp_calls, [op |-> "match", out |-> "raised"])
        /\ ReturnNotIdentified
        /\ UNCHANGED <<results, fp_k>>
     \/ \E answer \in MatchResults :
          /\ fp_calls' = Append(fp_calls, [op |-> "match", out |-> "ok"])
          /\ results' = answer
          /\ fp_k' = 1
          /\ fp_pc' = "process"
          /\ UNCHANGED fp_ret
  /\ UNCHANGED <<fp_env, enabled, best_match, best_score>>
  /\ UNCHANGED nonverifyvars

\* _process_results, lines 146-157: one tuple of the answer; an error ends
\* the loop, and best_match stays what it is
FP_Process ==
  /\ fp_pc = "process"
  /\ fp_k <= Len(results)
  /\ IF results[fp_k].kind = "raises"
     THEN /\ fp_calls' = Append(fp_calls, [op |-> "next", out |-> "raised"])
          /\ fp_pc' = "compare"
          /\ UNCHANGED <<fp_k, best_match, best_score>>
     ELSE /\ fp_calls' = Append(fp_calls, [op |-> "next", out |-> "tuple"])
          /\ IF takes_tuple(results[fp_k].score, best_score)
             THEN /\ best_match' = FingerprintMatch(results[fp_k])
                  /\ best_score' = results[fp_k].score
             ELSE UNCHANGED <<best_match, best_score>>
          /\ fp_k' = fp_k + 1
          /\ UNCHANGED fp_pc
  /\ UNCHANGED <<fp_env, results, enabled, fp_ret>>
  /\ UNCHANGED nonverifyvars

\* the answer is exhausted
FP_Processed ==
  /\ fp_pc = "process"
  /\ fp_k > Len(results)
  /\ fp_pc' = "compare"
  /\ UNCHANGED <<fp_env, results, enabled, fp_k, best_match, best_score, fp_calls, fp_ret>>
  /\ UNCHANGED nonverifyvars

\* lines 159, 56-63 and 76-89: best_match is returned and compared
FP_Compare ==
  /\ fp_pc = "compare"
  /\ fp_ret' = IF best_match = NoMatch THEN FALSE
               ELSE matches_track(best_match, fp_env.expected_track, MatchThreshold)
  /\ fp_pc' = "returned"
  /\ UNCHANGED <<fp_env, results, enabled, fp_k, best_match, best_score, fp_calls>>
  /\ UNCHANGED nonverifyvars

NextVerify ==
  \/ FP_Construct
  \/ FP_Verify
  \/ FP_Identify
  \/ FP_Fingerprint
  \/ FP_Match
  \/ FP_Process
  \/ FP_Processed
  \/ FP_Compare

SpecVerify == InitVerify /\ [][NextVerify]_vars

(***************************************************************************)
(* main.py: main(), PlaylistDownloadService.__init__ and run()             *)
(***************************************************************************)
Digits == "0123456789"

\* a character of the class [a-zA-Z0-9]
IsAlnum(c) ==
  \E k \in 1..Len(UpperLetters \o LowerLetters \o Digits) :
    CharAt(UpperLetters \o LowerLetters \o Digits, k) = c

RECURSIVE AlnumRun(_, _)
\* ([a-zA-Z0-9]+) matched at position p: the longest run of the class
AlnumRun(s, p) ==
  IF p <= Len(s) /\ IsAlnum(CharAt(s, p))
  THEN CharAt(s, p) \o AlnumRun(s, p + 1) ELSE ""

\* re.search(prefix + '([a-zA-Z0-9]+)', s): group 1 of the leftmost match,
\* None without a match
search_id(s, prefix) ==
  LET ps == {p \in 1..Len(s) :
               /\ p + Len(prefix) <= Len(s)
               /\ SubSeq(s, p, p + Len(prefix) - 1) = prefix
               /\ IsAlnum(CharAt(s, p + Len(prefix)))}
  IN  IF ps = {} THEN None ELSE AlnumRun(s, MinOf(ps) + Len(prefix))

\* spotify_extractor.py:104-108, the text before the group of each pattern
id_patterns == <<"playlist/", "playlist:", "open.spotify.com/playlist/">>

RECURSIVE first_id(_, _)
\* lines 110-115: the first pattern, from the k-th on, that matches
first_id(url, k) ==
  IF k > Len(id_patterns) THEN None
  ELSE IF search_id(url, id_patterns[k]) # None
       THEN search_id(url, id_patterns[k])
       ELSE first_id(url, k + 1)

\* SpotifyExtractor._extract_playlist_id
extract_playlist_id(url) == first_id(url, 1)

\* the lines a playlists file is made of
FileLines ==
  {"https://open.spotify.com/playlist/abc",
   "  https://open.spotify.com/playlist/xyz  ",
   "# https://open.spotify.com/playlist/abc",
   "https://open.spotify.com/playlist/",
   "spotify:playlist:abc",
   "http://example.com/list",
   ""}

\* line 105-106: the stripped line is kept
is_playlist_url(line) ==
  /\ line # ""
  /\ CharAt(line, 1) # "#"
  /\ Contains(line, "spotify.com/playlist/")

RECURSIVE valid_urls(_)
\* lines 102-109: the loop over the lines of the file
valid_urls(lines) ==
  IF lines = <<>> THEN <<>>
  ELSE LET line == Strip(Head(lines), Whitespace)
       IN  IF is_playlist_url(line)
           THEN <<line>> \o valid_urls(Tail(lines))
           ELSE valid_urls(Tail(lines))

\* PlaylistDownloadService._read_playlist_urls
read_playlist_urls(env) ==
  IF env.file = "missing" THEN <<>>
  ELSE IF env.file = "unreadable" THEN <<>>
       ELSE valid_urls(env.lines)

\* the playlists files the process can find
PlaylistFiles ==
  {[file |-> f, lines |-> <<>>] : f \in {"missing", "unreadable"}}
    \cup UNION { {[file |-> "present", lines |-> ls] : ls \in [1..n -> FileLines]}
                 : n \in 0..MaxLines }

\* what os.getenv gives for a credential: '' when it is not set
SettingValues == {"", "0123abcd"}

\* only the client id is required
validate_id_only(env) == env.spotify_client_id # ""

\* Config.validate
validate(env) == ~(env.spotify_client_id = "" \/ env.spotify_client_secret = "")

\* Config.get_missing_requirements
get_missing_requirements(env) ==
  (IF env.spotify_client_id = "" THEN <<"SPOTIFY_CLIENT_ID">> ELSE <<>>)
    \o (IF env.spotify_client_secret = "" THEN <<"SPOTIFY_CLIENT_SECRET">> ELSE <<>>)

\* main() is entered (lines 225-228)
InitRun ==
  /\ SessionIdle /\ ExtractIdle /\ SearchIdle /\ QueriesIdle /\ VerifyIdle /\ FilenameIdle /\ SampleIdle
  /\ \E id, secret \in SettingValues : \E services \in BOOLEAN : \E f \in PlaylistFiles :
       run_env = [spotify_client_id |-> id, spotify_client_secret |-> secret,
                  services |-> services, file |-> f.file, lines |-> f.lines]
  /\ run_pc = "construct"
  /\ playlist_urls = <<>>
  /\ run_tracks = <<>>
  /\ loop_entered = FALSE
  /\ exit_code = 0
  /\ reported = <<>>
  /\ failed_file = NoFile
  /\ run_no = 1
  /\ failed_at_end = <<>>
  /\ resolved = <<>>
  /\ run_complete = FALSE

\* sys.exit(1)
Exit(code) ==
  /\ exit_code' = code
  /\ run_pc' = "exited"

\* PlaylistDownloadService.__init__, lines 25-52
RUN_Construct ==
  /\ run_pc = "construct"
  /\ IF ~validate(run_env)
     THEN /\ reported' = get_missing_requirements(run_env)
          /\ Exit(1)
     ELSE IF ~run_env.services
          THEN Exit(1) /\ UNCHANGED reported
          ELSE run_pc' = "read" /\ UNCHANGED <<exit_code, reported>>
  /\ UNCHANGED <<run_env, playlist_urls, run_tracks, loop_entered>>
  /\ UNCHANGED <<failed_file, run_no, failed_at_end, resolved, run_complete>>
  /\ UNCHANGED nonrunvars

\* run(), lines 60-63
RUN_ReadUrls ==
  /\ run_pc = "read"
  /\ playlist_urls' = read_playlist_urls(run_env)
  /\ run_pc' = IF read_playlist_urls(run_env) = <<>> THEN "return" ELSE "extract"
  /\ UNCHANGED <<run_env, run_tracks, loop_entered, exit_code, reported>>
  /\ UNCHANGED <<failed_file, run_no, failed_at_end, resolved, run_complete>>
  /\ UNCHANGED nonrunvars

\* run(), lines 67-73: extract_multiple_playlists gives the unique tracks of
\* the playlists it could extract, none when it could extract no playlist
RUN_Extract ==
  /\ run_pc = "extract"
  /\ \E ts \in TrackLists \cup {<<>>} :
       /\ (\A n \in 1..Len(playlist_urls) : extract_playlist_id(playlist_urls[n]) = None)
            => ts = <<>>
       /\ run_tracks' = ts
       /\ run_pc' = IF ts = <<>> THEN "return" ELSE "download"
  /\ UNCHANGED <<run_env, playlist_urls, loop_entered, exit_code, reported>>
  /\ UNCHANGED <<failed_file, run_no, failed_at_end, resolved, run_complete>>
  /\ UNCHANGED nonrunvars

\* the header _save_failed_downloads writes (lines 183-184)
FailedFileHeader ==
  << "# Failed Downloads - You can manually search for these",
     "# Format: Artist - Title (Playlist)",
     "" >>

\* lines 187-190: the line of one track
failed_line(track) ==
  PyStr(track.artist) \o " - " \o PyStr(track.title)
    \o (IF track.playlist_name # "" THEN " (from " \o track.playlist_name \o ")" ELSE "")

\* the text _save_failed_downloads writes for a list of tracks
failed_downloads_text(failed) ==
  FailedFileHeader \o [n \in 1..Len(failed) |-> failed_line(failed[n])]

\* open(failed_file, 'w') and the writes: the file after them.  open may
\* raise (the file stays what it was), and a write may raise after open has
\* truncated the file (the file holds a part of the text); line 194 catches both
save_failed_downloads(file, failed) ==
  {[exists |-> TRUE, lines |-> failed_downloads_text(failed)], file}
    \cup {[exists |-> TRUE, lines |-> SubSeq(failed_downloads_text(failed), 1, n)]
             : n \in {0, Len(FailedFileHeader)}}

\* one iteration of the loop of _download_tracks (lines 127-169): whether
\* download_track returned a file for the track, and how often the track was
\* appended to failed_tracks
IterationOutcomes ==
  { [resolved |-> TRUE,  appended |-> 0],   \* a success, line 137
    [resolved |-> FALSE, appended |-> 1],   \* a failure, line 151, or an exception
                                            \* of line 130 handled at line 168
    [resolved |-> TRUE,  appended |-> 1],   \* a success, then an exception of
                                            \* lines 158-163 handled at line 168
    [resolved |-> FALSE, appended |-> 2] }  \* line 151, then line 168

RECURSIVE failed_tracks_of(_, _)
\* failed_tracks after the loop ran over ts with these iterations
failed_tracks_of(ts, outs) ==
  IF ts = <<>> THEN <<>>
  ELSE [n \in 1..Head(outs).appended |-> Head(ts)]
         \o failed_tracks_of(Tail(ts), Tail(outs))

\* run(), lines 81-89: _download_tracks and the report.  The loop runs over
\* every track, then the failed tracks are saved when there are any (lines
\* 174-175) and the report is printed; or an exception leaves the loop (line
\* 169) and is caught and logged at lines 88-89
RUN_Download ==
  /\ run_pc = "download"
  /\ loop_entered' = TRUE
  /\ \/ \E outs \in [1..Len(run_tracks) -> IterationOutcomes] :
          /\ resolved' = [k \in 1..Len(run_tracks) |-> outs[k].resolved]
          /\ failed_at_end' = failed_tracks_of(run_tracks, outs)
          /\ IF failed_tracks_of(run_tracks, outs) # <<>>
             THEN failed_file' \in save_failed_downloads(
                                     failed_file, failed_tracks_of(run_tracks, outs))
             ELSE UNCHANGED failed_file
          /\ run_complete' = TRUE
     \/ UNCHANGED <<failed_file, failed_at_end, resolved, run_complete>>
  /\ run_pc' = "return"
  /\ UNCHANGED <<run_env, playlist_urls, run_tracks, exit_code, reported, run_no>>
  /\ UNCHANGED nonrunvars

\* run() returns (lines 63, 71, 90-91) and main() ends after it (line 229):
\* the interpreter exits with status 0
RUN_Return ==
  /\ run_pc = "return"
  /\ Exit(0)
  /\ UNCHANGED <<run_env, playlist_urls, run_tracks, loop_entered, reported>>
  /\ UNCHANGED <<failed_file, run_no, failed_at_end, resolved, run_complete>>
  /\ UNCHANGED nonrunvars

NextRun ==
  \/ RUN_Construct
  \/ RUN_ReadUrls
  \/ RUN_Extract
  \/ RUN_Download
  \/ RUN_Return

\* the process is started again in the same directory: the download folder
\* keeps its files
RUN_Again ==
  /\ run_pc = "exited"
  /\ run_no < MaxSessions
  /\ run_no' = run_no + 1
  /\ run_pc' = "construct"
  /\ playlist_urls' = <<>>
  /\ run_tracks' = <<>>
  /\ loop_entered' = FALSE
  /\ exit_code' = 0
  /\ reported' = <<>>
  /\ failed_at_end' = <<>>
  /\ resolved' = <<>>
  /\ run_complete' = FALSE
  /\ UNCHANGED <<run_env, failed_file>>
  /\ UNCHANGED nonrunvars

\* a configuration with both credentials, working services and a playlists
\* file of one URL
WorkingEnv ==
  [spotify_client_id |-> "0123abcd", spotify_client_secret |-> "0123abcd",
   services |-> TRUE, file |-> "present",
   lines |-> <<"https://open.spotify.com/playlist/abc">>]

InitRuns == InitRun /\ run_env = WorkingEnv

NextRuns ==
  \/ NextRun
  \/ RUN_Again

\* successive runs of the process over one download folder
SpecRuns == InitRuns /\ [][NextRuns]_vars

SpecRun == InitRun /\ [][NextRun]_vars

(***************************************************************************)
(* models.py: Track.to_filename for any artist and title                   *)
(***************************************************************************)
RECURSIVE Repeat(_, _)
\* the string c * n
Repeat(c, n) ==
  IF n <= 0 THEN ""
  ELSE IF n = 1 THEN c
       ELSE Repeat(c, n \div 2) \o Repeat(c, n - n \div 2)

\* names about as long as the length cap
LongNames ==
  {Repeat("a", n) : n \in (MaxFilenameLen - 4)..(MaxFilenameLen + 1)}

\* the artists of a track (spotify_extractor.py:129 joins the artist names)
FilenameArtists ==
  {"Band", "AC/DC", ".38 Special", "Band ", "", "<>:\"/\\|?*"} \cup LongNames

\* the titles of a track (None: the catalogue API delivered null)
FilenameTitles ==
  {"Song", "Song?", "CON:/\\*?", "...", " Song. ", "What?.", "a.b c", "", None}
    \cup {Repeat("b", MaxFilenameLen + 1)}

\* to_filename is called on a track
InitFilename ==
  /\ SessionIdle /\ ExtractIdle /\ SearchIdle /\ QueriesIdle /\ VerifyIdle /\ RunIdle
  /\ SampleIdle
  /\ fn_track \in [artist : FilenameArtists, title : FilenameTitles]
  /\ fn_pc = "called"
  /\ fn_ret = ""

\* lines 27-38
FN_ToFilename ==
  /\ fn_pc = "called"
  /\ fn_ret' = to_filename(fn_track)
  /\ fn_pc' = "returned"
  /\ UNCHANGED fn_track
  /\ UNCHANGED nonfnvars

NextFilename ==
  \/ FN_ToFilename

SpecFilename == InitFilename /\ [][NextFilename]_vars

(***************************************************************************)
(* fingerprint_service.py: the sample _generate_fingerprint takes from the *)
(* middle of the audio file (lines 99-103).  Times are in milliseconds, as *)
(* the length and the slices of an AudioSegment are.                       *)
(***************************************************************************)
\* audio[a:b] of an AudioSegment of len ms: the bounds are clipped to the
\* segment
slice(len, a, b) ==
  [start |-> IF a > len THEN len ELSE a, stop |-> IF b > len THEN len ELSE b]

\* the sample is taken from the start of the file
sample_window_from_start(len, sample_ms) ==
  IF len > sample_ms THEN slice(len, 0, sample_ms)
  ELSE [start |-> 0, stop |-> len]

\* lines 101-103: the part of the file that is fingerprinted
sample_window(len, sample_ms) ==
  IF len > sample_ms
  THEN LET start_time == (len - sample_ms) \div 2
       IN  slice(len, start_time, start_time + sample_ms)
  ELSE [start |-> 0, stop |-> len]

\* a file has been loaded (line 97) and the sample length computed (line 100)
InitSample ==
  /\ SessionIdle /\ ExtractIdle /\ SearchIdle /\ QueriesIdle /\ VerifyIdle /\ RunIdle
  /\ FilenameIdle
  /\ audio_len \in 0..MaxAudioMs
  /\ sample_duration_ms \in 0..MaxSampleMs
  /\ sw_pc = "loaded"
  /\ sample = [start |-> 0, stop |-> audio_len]

\* lines 101-103
SW_Sample ==
  /\ sw_pc = "loaded"
  /\ sample' = sample_window(audio_len, sample_duration_ms)
  /\ sw_pc' = "sampled"
  /\ UNCHANGED <<audio_len, sample_duration_ms>>
  /\ UNCHANGED nonsamplevars

NextSample ==
  \/ SW_Sample

SpecSample == InitSample /\ [][NextSample]_vars

(***************************************************************************)
(* youtube_downloader.py: one call of download_track, over a download      *)
(* folder as earlier runs left it.  The search and the download command    *)
(* are blocking calls (subprocess.run without a timeout, lines 159 and     *)
(* 234): each step of the call is taken once the command it waits for has  *)
(* returned, which is what the fairness condition says.                    *)
(***************************************************************************)
InitCall ==
  /\ ExtractIdle /\ SearchIdle /\ QueriesIdle /\ VerifyIdle /\ RunIdle /\ FilenameIdle /\ SampleIdle
  /\ cfg = [fingerprint_verification |-> TRUE, verifier_enabled |-> TRUE]
  /\ tracks \in TrackLists
  /\ session = 1
  /\ pc = "dt_start"
  /\ i = 1
  /\ stats = [NewStats EXCEPT !.total_tracks = Len(tracks)]
  /\ failed_tracks = <<>>
  /\ status = [k \in 1..Len(tracks) |-> "NONE"]
  /\ files \in [Filenames -> FileStates]
  /\ failed_downloads = <<>>
  /\ queries = <<>>
  /\ q = 0
  /\ video_info = NoCandidate
  /\ result = NoResult
  /\ log = <<>>
  /\ existed = FALSE
  /\ raised = {}
  /\ prev = [k \in 1..Len(tracks) |-> "NONE"]
  /\ handed = <<>>

NextCall ==
  \/ DT_Start
  \/ DT_Search
  \/ DT_Download

\* where the call is: every step of it changes its position or adds a call
callpos == <<pc, q, log>>

SpecCall == InitCall /\ [][NextCall]_vars /\ WF_callpos(NextCall)

(***************************************************************************)
(* Properties.                                                             *)
(***************************************************************************)
FinalStatuses == {"SUCCESS", "FAILED", "VERIFIED", "VERIFICATION_FAILED"}

\* download_track has just returned for the track of index i
Returned == pc = "stats"

\* the searches among the calls of the running download_track, in call order
Searches == SelectSeq(log, LAMBDA e : e.op = "search")

\* the queries the generator produces for the track being processed
Generated == GeneratedQueries[Track]

\* the n-th call of the running download_track ended its query without a file
EndsQuery(n) ==
  \/ log[n].op = "search" /\ log[n].out \in {"none", "raised"}
  \/ log[n].op = "download" /\ log[n].out \in {"none", "raised"}

\* after the n-th call, which was made for the k-th query, the k+1-st query is
\* searched (or is about to be)
NextQueryTried(n, k) ==
  IF n < Len(log)
  THEN log[n + 1].op = "search" /\ log[n + 1].query = Generated[k + 1]
  ELSE pc = "dt_search" /\ q = k + 1

\* the position in the loop of the query of the n-th call
QueryIndex(n) == log[n].q

\* how often x occurs in the sequence seq
Occurrences(seq, x) == Cardinality({n \in 1..Len(seq) : seq[n] = x})

\* C1: once the loop has processed every track, successful_downloads +
\* failed_downloads equals total_tracks, whatever happened to each track,
\* a track whose processing raised being counted once, as failed.
C1_CountsAddUp ==
  pc = "completed" =>
    stats.successful_downloads + stats.failed_downloads = stats.total_tracks

\* C2: once the loop has completed, every track has a status among SUCCESS,
\* FAILED, VERIFIED and VERIFICATION_FAILED; none is left pending,
\* downloading or without a status.
C2_EveryTrackHasFinalStatus ==
  pc = "completed" => \A k \in 1..Len(tracks) : status[k] \in FinalStatuses

\* C3 as stated: download_track for a track whose canonical file exists
\* returns SUCCESS with that path and calls neither collaborator, and a second
\* run of download_track for a track calls no collaborator at all.
C3_SecondRunCallsNothing ==
  Returned =>
    /\ existed => /\ result = DownloadResult("SUCCESS", to_filename(Track), None, None)
                  /\ log = <<>>
    /\ prev[i] # "NONE" => log = <<>>

\* C3 as amended: download_track for a track whose canonical file exists
\* returns SUCCESS with that path and calls neither collaborator; a second run
\* calls no collaborator when the first run returned SUCCESS (its file is
\* still there), while after a failed first run it searches again.
C3_ExistingFileShortCircuits ==
  Returned =>
    /\ existed => /\ result = DownloadResult("SUCCESS", to_filename(Track), None, None)
                  /\ log = <<>>
    /\ prev[i] \in {"SUCCESS", "VERIFIED", "VERIFICATION_FAILED"} => log = <<>>

\* a second run for a track whose first run succeeded has returned
C3_Witness ==
  Returned /\ session = 2 /\ existed /\ prev[i] = "SUCCESS" /\ result.status = "SUCCESS"

\* every query generated for the track was tried and none gave a file
AllQueriesFailed ==
  /\ ~generate_raises(Track)
  /\ Len(Searches) = Len(Generated)
  /\ \A n \in 1..Len(log) : log[n].out # "path"

\* C4: when every generated query has ended without a download, the result
\* is FAILED with a non-empty error message; the failed_downloads list of the
\* downloader holds a track once for each FAILED result and never for a
\* SUCCESS.
C4_FailedRecordedOnce ==
  /\ (Returned /\ AllQueriesFailed) =>
       /\ result.status = "FAILED"
       /\ result.error_message \notin {None, ""}
       /\ result.file_path = None
  /\ \A k \in 1..Len(tracks) :
       Occurrences(failed_downloads, TrackStr(tracks[k]))
         = Cardinality({j \in 1..Len(tracks) :
                          /\ TrackStr(tracks[j]) = TrackStr(tracks[k])
                          /\ status[j] = "FAILED"})

\* a track has failed on all its queries and is in the list, and a track
\* downloaded after it is not
C4_Witness ==
  /\ Returned /\ result.status = "SUCCESS" /\ log # <<>>
  /\ failed_downloads # <<>>
  /\ \E k \in 1..Len(tracks) : status[k] = "FAILED" /\ ~generate_raises(tracks[k])

\* C5: a search that finds no acceptable candidate, and a download that fails
\* for the candidate found, are followed by the search of the next generated
\* query as long as there is one.
C5_NextQueryAfterMissOrToolFailure ==
  \A n \in 1..Len(log) :
    (log[n].out = "none" /\ EndsQuery(n) /\ QueryIndex(n) < Len(Generated))
      => NextQueryTried(n, QueryIndex(n))

\* a miss and a failed download were each followed by the next query
C5_Witness ==
  /\ Returned
  /\ \E n, m \in 1..Len(log) :
       /\ log[n].op = "search" /\ log[n].out = "none"
       /\ log[m].op = "download" /\ log[m].out = "none"
  /\ Len(Searches) = Len(Generated)

\* the searches were made in the order of the generator
SearchedInGeneratorOrder ==
  /\ Len(Searches) <= Len(Generated)
  /\ \A k \in 1..Len(Searches) : Searches[k].query = Generated[k]

\* C6 as stated: the queries are searched in generator order and no query is
\* searched after one whose search gave an accepted candidate.
C6_AcceptedCandidateStopsSearch ==
  log # <<>> =>
    /\ SearchedInGeneratorOrder
    /\ \A n, m \in 1..Len(log) :
         (n < m /\ log[n].op = "search" /\ log[n].out = "found")
           => log[m].op # "search"

\* C6 as amended: the queries are searched in generator order and no query is
\* searched after one whose accepted candidate was downloaded; a query whose
\* accepted candidate fails to download does not stop the search.
C6_DownloadedCandidateStopsSearch ==
  log # <<>> =>
    /\ SearchedInGeneratorOrder
    /\ \A n \in 1..Len(log) :
         (log[n].op = "download" /\ log[n].out = "path")
           => /\ n = Len(log)
              /\ Returned
              /\ result.status = "SUCCESS"
    /\ \A n \in 1..Len(log) :
         (log[n].op = "download" /\ log[n].out # "path"
            /\ QueryIndex(n) < Len(Generated))
           => NextQueryTried(n, QueryIndex(n))

\* a later query was searched after an accepted candidate failed to download,
\* and its own candidate ended the search
C6_Witness ==
  /\ Returned /\ result.status = "SUCCESS"
  /\ Len(Searches) = 2
  /\ \A k \in 1..2 : Searches[k].out = "found"

\* C7: an exception raised by the search or by the download of one query is
\* that query's failure only: the next generated query is tried, and the
\* exception does not reach the except clause of the caller.
C7_QueryExceptionIsContained ==
  /\ \A n \in 1..Len(log) :
       (log[n].out = "raised" /\ QueryIndex(n) < Len(Generated))
         => NextQueryTried(n, QueryIndex(n))
  /\ (Returned /\ \E n \in 1..Len(log) : log[n].out = "raised")
       => \/ result.status = "SUCCESS"
          \/ AllQueriesFailed /\ result.error_message = "No suitable video found"
  /\ pc \in {"handler", "aborted"} => log = <<>>

\* a search and a download raised, and a later query still gave the file
C7_Witness ==
  /\ Returned /\ result.status = "SUCCESS"
  /\ \E n, m \in 1..Len(log) :
       /\ log[n].op = "search" /\ log[n].out = "raised"
       /\ log[m].op = "download" /\ log[m].out = "raised"

\* C8 as stated: FAILED is returned only after every generated query has been
\* tried and has failed; no error before the queries gives FAILED.
C8_FailedOnlyByExhaustion ==
  (Returned /\ result.status = "FAILED") =>
    /\ Len(Searches) = MaxQueries
    /\ \A n \in 1..Len(log) : log[n].out # "path"

\* C8 as amended: FAILED is returned either after every generated query has
\* been tried and has failed, or for an error raised before the first query
\* (the query generation for a title that is no string), with the text of
\* that error as the message and no query tried.
C8_FailedByExhaustionOrEarlyError ==
  (Returned /\ result.status = "FAILED") =>
    \/ /\ AllQueriesFailed
       /\ Len(Searches) = MaxQueries
       /\ result.error_message = "No suitable video found"
    \/ /\ generate_raises(Track)
       /\ log = <<>>
       /\ result.error_message = TypeErrorMessage

\* FAILED was returned for an error of the query generation, and for another
\* track after all its queries
C8_Witness ==
  /\ Returned /\ result.status = "FAILED" /\ generate_raises(Track) /\ log = <<>>
  /\ \E k \in 1..Len(tracks) :
       k # i /\ status[k] = "FAILED" /\ ~generate_raises(tracks[k])

\* C9: an exception raised while a track is processed never aborts the batch:
\* the track is counted as failed, is in the list of failed tracks, and the
\* tracks after it are processed.
C9_ExceptionNeverAbortsBatch ==
  /\ pc # "aborted"
  /\ pc = "completed" =>
       \A k \in raised : \E n \in 1..Len(failed_tracks) : failed_tracks[n] = tracks[k]

\* one step of a track's status: it stays, or a track without a result gets
\* SUCCESS or FAILED from the downloader, or a SUCCESS becomes VERIFIED or
\* VERIFICATION_FAILED while config.fingerprint_verification is set
StatusStep(from, to) ==
  \/ to = from
  \/ from = "NONE" /\ to \in {"SUCCESS", "FAILED"}
  \/ /\ from = "SUCCESS"
     /\ to \in {"VERIFIED", "VERIFICATION_FAILED"}
     /\ cfg.fingerprint_verification

\* C15: within a session the status of a track moves one way only: the
\* downloader gives SUCCESS or FAILED, a SUCCESS becomes VERIFIED or
\* VERIFICATION_FAILED only when verification is enabled in the
\* configuration, and FAILED, VERIFIED, VERIFICATION_FAILED (and SUCCESS with
\* verification disabled) never change.
C15_StatusOneWay ==
  [][session' = session =>
       \A k \in 1..Len(tracks) : StatusStep(status[k], status'[k])]_vars

\* with verification enabled a download became VERIFICATION_FAILED after an
\* earlier track had FAILED, and the loop went on
C15_Witness ==
  /\ cfg.fingerprint_verification
  /\ pc = "progress" /\ i = 2
  /\ status[1] = "FAILED" /\ status[2] = "VERIFICATION_FAILED"

RECURSIVE ExtractedFrom(_, _)
\* the tracks of the playlists k.. of the input that were extracted, in order
ExtractedFrom(input, k) ==
  IF k > Len(input) THEN <<>>
  ELSE IF input[k].ok
       THEN extract_playlist(input, k).tracks \o ExtractedFrom(input, k + 1)
       ELSE ExtractedFrom(input, k + 1)

\* the first position of the identity id in the track sequence seq
FirstIndex(seq, id) == MinOf({n \in 1..Len(seq) : seq[n].spotify_id = id})

\* the identities of a track sequence
IdsOf(seq) == {seq[n].spotify_id : n \in 1..Len(seq)}

\* C10: the list extract_multiple_playlists returns holds no identity twice,
\* holds every identity of every extracted playlist, and is ordered by the
\* first appearance of the identities across the playlists in input order.
C10_UniqueInFirstSeenOrder ==
  ex_pc = "returned" =>
    LET src == ExtractedFrom(ex_in, 1)
        out == unique_tracks
    IN  /\ \A a, b \in 1..Len(out) : a # b => out[a].spotify_id # out[b].spotify_id
        /\ IdsOf(out) = IdsOf(src)
        /\ \A a, b \in 1..Len(out) :
             a < b => FirstIndex(src, out[a].spotify_id) < FirstIndex(src, out[b].spotify_id)
        /\ \A a \in 1..Len(out) : out[a] = src[FirstIndex(src, out[a].spotify_id)]

\* two extracted playlists share a track and the list was returned
C10_Witness ==
  /\ ex_pc = "returned"
  /\ Len(unique_tracks) >= 2
  /\ Len(unique_tracks) < Len(all_tracks)
  /\ \E a, b \in 1..Len(all_tracks) :
       /\ all_tracks[a].spotify_id = all_tracks[b].spotify_id
       /\ all_tracks[a].playlist_name # all_tracks[b].playlist_name

\* the substrings a title must not contain
RejectSubstrings ==
  {"reaction", "review", "cover", "karaoke", "instrumental",
   "tutorial", "how to", "lesson", "behind the scenes"}

\* the case-folded title of a search result (an absent title is empty)
FoldedTitle(v) == LowerStr(IF v.title = Missing THEN "" ELSE v.title)

\* the result has a duration within [min_duration, max_duration] and a title
\* free of the reject substrings
PassesFilters(v) ==
  /\ v.duration_json = "number"
  /\ min_duration <= v.duration /\ v.duration <= max_duration
  /\ \A w \in RejectSubstrings : ~Contains(FoldedTitle(v), w)

\* the results that pass the filters, and those with an official indicator
Passing == {v \in VideoInfos : PassesFilters(v)}
Official == {v \in VideoInfos : has_official(v)}

\* _is_good_match returns True for the result
Accepts(v) == good_match[v] = "True"

\* C11: _is_good_match accepts a search result if and only if its duration
\* lies in [min_duration, max_duration] and its lower-cased title contains no
\* reject substring; two results that agree on both are treated alike,
\* whether or not their titles carry an official indicator.
C11_AcceptsIffDurationAndTitlePass ==
  /\ \A k \in 1..Len(videos) : Accepts(videos[k]) <=> videos[k] \in Passing
  /\ \A a, b \in 1..Len(videos) :
       (videos[a] \in Passing <=> videos[b] \in Passing)
         => (Accepts(videos[a]) <=> Accepts(videos[b]))
  /\ (sy_pc = "returned" /\ sy_ret # NoVideoInfo) => sy_ret \in Passing

\* a result with an official indicator was rejected for a reject substring,
\* and the result after it, of the shortest duration allowed and without any
\* official indicator, was accepted
C11_Witness ==
  /\ sy_pc = "returned" /\ sy_k = 2 /\ Len(videos) >= 2 /\ sy_ret = videos[2]
  /\ videos[1] \in Official /\ videos[1] \notin Passing
  /\ videos[2] \notin Official
  /\ videos[2].duration = min_duration

\* the positions of the parsed output lines that pass the filters
PassingResults == {k \in 1..Len(parse_lines(sy_out.lines)) :
                     parse_lines(sy_out.lines)[k] \in Passing}

\* C12: for one query the selector returns the earliest result, in the ranked
\* order of the search output, that passes the filters, returns none exactly
\* when no result passes, and an empty output gives none without an error.
C12_EarliestPassingOrNone ==
  /\ sy_pc # "raised"
  /\ (sy_pc = "returned" /\ sy_out.exit = "zero") =>
       IF PassingResults = {}
       THEN sy_ret = NoVideoInfo
       ELSE sy_ret = parse_lines(sy_out.lines)[MinOf(PassingResults)]

\* a quoted title followed by a quoted artist
QuotedPair(title, artist) == "\"" \o title \o "\" \"" \o artist \o "\""

\* the three most specific queries for a title and an artist
MostSpecificQueries(title, artist) ==
  << QuotedPair(title, artist) \o " official audio",
     QuotedPair(title, artist) \o " lyrics",
     QuotedPair(title, artist) \o " official music video" >>

OrOriginal(cleaned, original) == IF cleaned = "" THEN original ELSE cleaned

\* C14: when the cleanup of the title or of the artist removes everything,
\* the generator uses the original string for that field, so that no query
\* is built from an empty title or an empty artist.
C14_FallsBackToOriginal ==
  gq_pc = "returned" =>
    gq_ret = MostSpecificQueries(OrOriginal(clean_title, gq_track.title),
                                 OrOriginal(clean_artist, gq_track.artist))

\* the service cannot work: fingerprinting is switched off, its libraries
\* cannot be imported, or no credential of the identity service is configured
CannotFingerprint ==
  \/ ~fp_env.enable_fingerprinting
  \/ ~fp_env.libraries
  \/ fp_env.acoustid_api_key = ""

\* C16: whenever fingerprinting is disabled, the fingerprint libraries are
\* unavailable or no identity-service credential is configured,
\* verify_download returns True at once: it reads no file and calls no
\* identity service.
C16_SkipsWhenNotEnabled ==
  (CannotFingerprint /\ fp_pc \notin {"construct", "verify"})
    => /\ fp_pc = "returned"
       /\ fp_ret = TRUE
       /\ fp_calls = <<>>

\* verification is asked for and a credential is there, the libraries are
\* not: verify_download has returned True
C16_Witness ==
  /\ fp_pc = "returned" /\ fp_ret = TRUE
  /\ fp_env.fingerprint_verification /\ fp_env.enable_fingerprinting
  /\ fp_env.acoustid_api_key # "" /\ ~fp_env.libraries

\* a call of the running verify_download raised
SomeCallRaised == \E n \in 1..Len(fp_calls) : fp_calls[n].out = "raised"

\* C17: with verification active, an error of the sample extraction, of the
\* fingerprint computation, of the identity-service call or of the result
\* processing makes verify_download return False; verify_download returns in
\* every such case.
C17_ErrorGivesNoMatch ==
  /\ SomeCallRaised => fp_pc \in {"compare", "returned"}
  /\ (fp_pc = "returned" /\ SomeCallRaised) => fp_ret = FALSE

\* the white-space separated tokens of a string, case-folded
Tokens(text) ==
  {LowerStr(SubSeq(text, a, b)) : <<a, b>> \in
     {ab \in (1..Len(text)) \X (1..Len(text)) :
        /\ ab[1] <= ab[2]
        /\ \A k \in ab[1]..ab[2] : CharAt(text, k) \notin Whitespace
        /\ ab[1] = 1 \/ CharAt(text, ab[1] - 1) \in Whitespace
        /\ ab[2] = Len(text) \/ CharAt(text, ab[2] + 1) \in Whitespace}}

\* the Jaccard similarity of the token sets of two strings is at least 0.7;
\* a missing or empty string is similar to nothing
SimilarEnough(text1, text2) ==
  /\ text1 \notin {None, ""} /\ text2 \notin {None, ""}
  /\ Tokens(text1) # {} /\ Tokens(text2) # {}
  /\ 10 * Cardinality(Tokens(text1) \cap Tokens(text2))
       >= 7 * Cardinality(Tokens(text1) \cup Tokens(text2))

\* for each identified name and expected track: are both fields similar enough
Acceptable ==
  [m \in {[title |-> or_unknown(n.title), artist |-> or_unknown(n.artist)] :
            n \in RecordingNames},
   t \in ExpectedTracks |->
     SimilarEnough(m.title, t.title) /\ SimilarEnough(m.artist, t.artist)]

\* the title and the artist of the identification
Identified == [title |-> best_match.title, artist |-> best_match.artist]

\* C18: matches_track accepts exactly when the Jaccard similarity of the
\* case-folded token sets of the titles is at least the threshold and that of
\* the artists is too; an empty title or artist gives similarity 0 and a
\* rejection; names that differ only in letter case have similarity 1.
C18_AcceptsIffBothSimilar ==
  (fp_pc = "returned" /\ best_match # NoMatch) =>
    /\ fp_ret = Acceptable[Identified, fp_env.expected_track]
    /\ fp_env.expected_track.title = "" => fp_ret = FALSE
    /\ (/\ fp_env.expected_track.title # ""
        /\ LowerStr(best_match.title) = LowerStr(fp_env.expected_track.title)
        /\ LowerStr(best_match.artist) = LowerStr(fp_env.expected_track.artist))
         => /\ fp_ret = TRUE
            /\ text_similarity(best_match.title, fp_env.expected_track.title).num
                 = text_similarity(best_match.title, fp_env.expected_track.title).den

\* an identification whose title shares three of its four words with the
\* expected title was accepted
C18_Witness ==
  /\ fp_pc = "returned" /\ fp_ret = TRUE
  /\ best_match.title = "Shape of You (Cover)"
  /\ fp_env.expected_track.title = "Shape of You"

\* the positions of the answer whose confidence exceeds 0.7
Confident == {n \in 1..Len(results) : results[n].score > 70}

\* _process_results has gone through an answer all of whose tuples could be read
ProcessedAll ==
  /\ fp_pc \in {"compare", "returned"}
  /\ fp_k > Len(results)
  /\ \A n \in 1..Len(results) : results[n].kind = "tuple"

\* C19: _process_results returns the tuple of the highest confidence among
\* those whose confidence is strictly greater than 0.7, and nothing when the
\* answer is empty or no confidence exceeds 0.7; when nothing is identified
\* verify_download returns False.
C19_HighestAboveThreshold ==
  /\ ProcessedAll =>
       IF Confident = {} THEN best_match = NoMatch
       ELSE \E n \in Confident :
              /\ \A m \in Confident : results[m].score <= results[n].score
              /\ best_match.confidence = results[n].score
              /\ best_match.title = or_unknown(results[n].title)
              /\ best_match.artist = or_unknown(results[n].artist)
  /\ (fp_pc = "returned" /\ fp_calls # <<>> /\ best_match = NoMatch) => fp_ret = FALSE

\* of two tuples above the threshold the second, of higher confidence, was
\* returned, and with a lone tuple of confidence 0.7 nothing would have been
C19_Witness ==
  /\ fp_pc = "returned" /\ Len(results) = 2
  /\ results[1].kind = "tuple" /\ results[1].score = 71
  /\ results[2].kind = "tuple" /\ results[2].score = 90
  /\ best_match.confidence = 90
  /\ best_match.title # results[1].title

\* the process got as far as run() and found no valid playlist URL, or
\* extracted no track
NothingToDownload ==
  /\ validate(run_env) /\ run_env.services
  /\ run_pc \in {"return", "exited"}
  /\ playlist_urls = <<>> \/ run_tracks = <<>>

\* C20: a run that finds no valid playlist URL, or whose extraction yields no
\* track, never enters the download loop, and its process exits with a
\* non-zero status.
C20_NothingToDownloadExitsNonZero ==
  NothingToDownload =>
    /\ ~loop_entered
    /\ run_pc = "exited" => exit_code # 0

\* the required settings that are not set, in the order of the configuration
AbsentSettings ==
  SelectSeq(<<"SPOTIFY_CLIENT_ID", "SPOTIFY_CLIENT_SECRET">>,
            LAMBDA name : \/ name = "SPOTIFY_CLIENT_ID" /\ run_env.spotify_client_id = ""
                          \/ name = "SPOTIFY_CLIENT_SECRET"
                               /\ run_env.spotify_client_secret = "")

\* C21: when the client id or the client secret is missing, the process
\* exits with a non-zero status at startup, before the playlists file is read
\* and before any extraction, search or download, and the missing settings it
\* reports are exactly the absent ones.
C21_MissingCredentialExitsAtStartup ==
  (AbsentSettings # <<>> /\ run_pc # "construct") =>
    /\ run_pc = "exited"
    /\ exit_code # 0
    /\ reported = AbsentSettings
    /\ playlist_urls = <<>> /\ run_tracks = <<>> /\ ~loop_entered

\* only the client secret is missing, a playlists file with a valid URL is
\* there, and the process has exited
C21_Witness ==
  /\ run_pc = "exited"
  /\ run_env.spotify_client_id # "" /\ run_env.spotify_client_secret = ""
  /\ run_env.services
  /\ read_playlist_urls(run_env) # <<>>
  /\ reported = <<"SPOTIFY_CLIENT_SECRET">>

\* the PlaylistInfo of the k-th URL is in the returned list of playlists
HasPlaylistInfo(k) ==
  \E n \in 1..Len(all_playlists) : all_playlists[n].url = PlaylistUrl(k)

\* the tracks collected under the name of the k-th playlist, in order
TracksOfPlaylist(k) ==
  SelectSeq(all_tracks, LAMBDA t : t.playlist_name = PlaylistName(k))

\* C22: extract_multiple_playlists skips a playlist whose extraction fails and
\* only that one: every other playlist of the input is extracted, its
\* PlaylistInfo is in the returned playlists and each of its tracks is in the
\* returned tracks, while a failed playlist contributes no PlaylistInfo and no
\* track, not even one parsed before the failure.
C22_FailedPlaylistIsSkippedAlone ==
  ex_pc = "returned" =>
    \A k \in 1..Len(ex_in) :
      IF ex_in[k].ok
      THEN /\ HasPlaylistInfo(k)
           /\ TracksOfPlaylist(k) = extract_playlist(ex_in, k).tracks
           /\ \A n \in 1..Len(ex_in[k].ids) : ex_in[k].ids[n] \in IdsOf(unique_tracks)
      ELSE /\ ~HasPlaylistInfo(k)
           /\ TracksOfPlaylist(k) = <<>>
           /\ \A n \in 1..Len(unique_tracks) :
                unique_tracks[n].playlist_name # PlaylistName(k)

\* the first playlist failed after a track of it had been parsed, the second
\* was extracted, and only the tracks of the second were returned
C22_Witness ==
  /\ ex_pc = "returned" /\ Len(ex_in) = 2
  /\ ~ex_in[1].ok /\ ex_in[1].ids # <<>>
  /\ ex_in[2].ok /\ Len(ex_in[2].ids) = 2
  /\ Len(all_playlists) = 1
  /\ Len(unique_tracks) = 2

\* the tracks the run left without a file, in processing order
Unresolved ==
  SelectSeq(run_tracks, LAMBDA t :
    \E k \in 1..Len(run_tracks) : run_tracks[k] = t /\ ~resolved[k])

\* the lines of the recovery file after its header (none without a file)
ListedLines ==
  IF Len(failed_file.lines) <= Len(FailedFileHeader) THEN <<>>
  ELSE SubSeq(failed_file.lines, Len(FailedFileHeader) + 1, Len(failed_file.lines))

\* C23: after a complete run the recovery file lists exactly the tracks the
\* run left unresolved, one line per track in processing order, and no track
\* the run resolved, also when the run had no failure and a recovery file of
\* an earlier run is there.
C23_RecoveryFileListsUnresolved ==
  (run_pc = "exited" /\ run_complete) =>
    ListedLines = [n \in 1..Len(Unresolved) |-> failed_line(Unresolved[n])]

\* C24: the step in which verification rejects a download sets the status of
\* the track to VERIFICATION_FAILED, leaves the downloaded file in place as it
\* is, adds exactly one to verification_failures and changes no other
\* counter; the step of an accepted download gives VERIFIED.
C24_RejectionKeepsFileAndCountsOnce ==
  [][pc = "verify" =>
       /\ status'[i] \in {"VERIFIED", "VERIFICATION_FAILED"}
       /\ result'.status = status'[i]
       /\ status'[i] = "VERIFICATION_FAILED" =>
            /\ stats' = [stats EXCEPT !.verification_failures = @ + 1]
            /\ files' = files
            /\ result'.file_path = result.file_path
            /\ path_exists(files', result'.file_path)]_vars

\* a download of this session was rejected: it is counted as successful and
\* as a verification failure, and its file is there
C24_Witness ==
  /\ pc = "progress" /\ session = 1
  /\ status[i] = "VERIFICATION_FAILED"
  /\ stats.verification_failures = 1 /\ stats.successful_downloads = 1
  /\ files[to_filename(Track)] = "full"

\* the text of a line of the file without its surrounding whitespace
Trimmed(line) == Strip(line, Whitespace)

\* the trimmed line is not blank, is no comment and holds the playlist path
LooksLikePlaylistUrl(line) ==
  /\ Trimmed(line) # ""
  /\ SubSeq(Trimmed(line), 1, 1) # "#"
  /\ Contains(Trimmed(line), "spotify.com/playlist/")

\* the trimmed lines of the file that look like playlist URLs, in file order
ExpectedUrls ==
  LET kept == SelectSeq(run_env.lines, LooksLikePlaylistUrl)
  IN  [n \in 1..Len(kept) |-> Trimmed(kept[n])]

\* _read_playlist_urls has returned
UrlsRead ==
  /\ run_pc \in {"extract", "download", "return", "exited"}
  /\ validate(run_env) /\ run_env.services

\* the read returns the expected lines (none without a readable file)
ReadReturnsMatchingLines ==
  UrlsRead => playlist_urls = IF run_env.file = "present" THEN ExpectedUrls ELSE <<>>

\* C25: _read_playlist_urls returns, in file order, exactly the trimmed lines
\* that are not blank, do not start with '#' and match the playlist-URL
\* pattern; the other lines never make the read fail; and the extractor can
\* derive a playlist id from every URL returned.
C25_ReturnedUrlsHaveAnId ==
  UrlsRead =>
    /\ ReadReturnsMatchingLines
    /\ \A n \in 1..Len(playlist_urls) : extract_playlist_id(playlist_urls[n]) # None

\* the name to_filename returned, without its extension
BaseName == SubSeq(fn_ret, 1, Len(fn_ret) - Len(".mp3"))

\* the characters a file name must not hold
ForbiddenChars == {"<", ">", ":", "\"", "/", "\\", "|", "?", "*"}

\* C26: for every artist and title the name to_filename gives, without its
\* .mp3 extension, holds none of the characters < > : " / \ | ? *, neither
\* begins nor ends with a dot or a space, and is at most 150 characters long,
\* also when the name was longer and has been cut.
C26_FilenameIsSafe ==
  fn_pc = "returned" =>
    /\ \A k \in 1..Len(BaseName) : SubSeq(BaseName, k, k) \notin ForbiddenChars
    /\ BaseName # "" =>
         /\ SubSeq(BaseName, 1, 1) \notin {".", " "}
         /\ SubSeq(BaseName, Len(BaseName), Len(BaseName)) \notin {".", " "}
    /\ Len(BaseName) <= MaxFilenameLen

\* the counters of SessionStats
Counters ==
  {"total_tracks", "successful_downloads", "failed_downloads",
   "verified_downloads", "verification_failures"}

\* the number of tracks whose processing has begun in this session
TracksBegun == IF pc = "describe" THEN i - 1 ELSE i

\* C27: during a session no step decreases or resets a counter of
\* SessionStats, and processing one track raises successful_downloads by at
\* most one and failed_downloads by at most one, so that neither counter
\* exceeds the number of tracks whose processing has begun.
C27_CountersGrowByAtMostOnePerTrack ==
  [][session' = session =>
       /\ \A c \in Counters : stats'[c] >= stats[c]
       /\ stats'.successful_downloads <= TracksBegun'
       /\ stats'.failed_downloads <= TracksBegun']_vars

\* C28: within a session each track of the list is handed to download_track
\* exactly once, in the order of the list, and the search, download and
\* verification steps of a track are over before a step of the next track
\* begins: the steps are those of the track handed last, and when the
\* session ends every track has been handed once.
C28_EachTrackOnceInOrder ==
  /\ \A a, b \in 1..Len(handed) : a < b => handed[a] < handed[b]
  /\ pc \in {"dt_search", "dt_download", "stats", "verify"}
       => (handed # <<>> /\ handed[Len(handed)] = i)
  /\ pc \in {"completed", "aborted"} => handed = [k \in 1..Len(tracks) |-> k]

\* the last collaborator call of the running download_track
LastCall == log[Len(log)]

\* the download tool has just run, has exited with status zero, and the file
\* at the canonical path of the track is there and is not empty
ToolSucceeded ==
  /\ LastCall.exit = "zero"
  /\ files[to_filename(Track)] \in {"partial", "full"}

\* C29: when the download tool succeeds for a candidate, download_track
\* returns SUCCESS with the canonical path of the track as file_path and the
\* URL of that candidate as source URL; a run of the tool counts as a success
\* only if it exits with status zero and the file at the canonical path exists
\* with a size above zero, and no download returns SUCCESS otherwise.
C29_ToolSuccessGivesPathAndUrl ==
  /\ (log # <<>> /\ LastCall.op = "download") =>
       IF ToolSucceeded
       THEN /\ Returned
            /\ result = DownloadResult("SUCCESS", to_filename(Track), None,
                                       Candidate(Generated, LastCall.q).webpage_url)
       ELSE ~(Returned /\ result.status = "SUCCESS")
  /\ (Returned /\ result.status = "SUCCESS" /\ log # <<>>) => LastCall.op = "download"

\* the tool failed for the candidate of the first query and wrote an empty
\* file for the second, and the candidate of the third query was downloaded
C29_Witness ==
  /\ Returned /\ result.status = "SUCCESS"
  /\ Len(log) = 2 * MaxQueries
  /\ log[2].exit = "nonzero" /\ log[4].exit = "zero" /\ log[4].out = "none"
  /\ LastCall.q = MaxQueries
  /\ result.youtube_url = Candidate(Generated, MaxQueries).webpage_url
  /\ files[to_filename(Track)] = "full"

\* C30: no step of a session (download, verification, statistics update,
\* progress report, keeping a track for the recovery file) changes a field of
\* a Track: the list keeps the tracks as extraction delivered them, and a
\* track kept for the recovery file is the track being processed, field for
\* field; what a step records of the outcome goes to the DownloadResult and to
\* the SessionStats.
C30_TracksKeepTheirFields ==
  [][session' = session =>
       /\ tracks' = tracks
       /\ \/ failed_tracks' = failed_tracks
          \/ failed_tracks' = Append(failed_tracks, tracks[i])]_vars

\* a session over two tracks is over: the first track failed and was kept for
\* the recovery file, the download of the second was rejected by verification
C30_Witness ==
  /\ pc = "completed" /\ session = 1
  /\ Len(tracks) = 2
  /\ failed_tracks = <<tracks[1]>>
  /\ status[1] = "FAILED" /\ status[2] = "VERIFICATION_FAILED"
  /\ stats.failed_downloads = 1 /\ stats.verification_failures = 1

\* the positions in the log of the calls of one kind
CallsOf(kind) == {n \in 1..Len(log) : log[n].op = kind}

\* no two calls of one kind were made for the same query
OncePerQuery(kind) ==
  \A a, b \in CallsOf(kind) :
     a # b => (log[a].q # log[b].q /\ log[a].query # log[b].query)

\* what one call of download_track has done so far is within its bounds
CallWithinBounds ==
  /\ Cardinality(CallsOf("search")) <= 3
  /\ Cardinality(CallsOf("download")) <= 3
  /\ OncePerQuery("search")
  /\ OncePerQuery("download")

Smaller(a, b) == IF a < b THEN a ELSE b

\* the lengths of the file before and after the sample
MarginBefore == sample.start
MarginAfter == audio_len - sample.stop

\* C32: for a file of L ms and a sample length of S ms the fingerprint sample
\* is the window from (L-S) div 2 to (L-S) div 2 + S when L > S and the whole
\* file when L <= S; the window lies inside [0, L], is min(L, S) long, and is
\* centred to within 1 ms (what is left before it and after it differ by at
\* most 1 ms).
C32_SampleIsCentredWindow ==
  sw_pc = "sampled" =>
    LET L == audio_len
        S == sample_duration_ms
    IN  /\ L > S => sample = [start |-> (L - S) \div 2, stop |-> (L - S) \div 2 + S]
        /\ L <= S => sample = [start |-> 0, stop |-> L]
        /\ 0 <= sample.start /\ sample.start <= sample.stop /\ sample.stop <= L
        /\ sample.stop - sample.start = Smaller(L, S)
        /\ MarginAfter - MarginBefore \in {-1, 0, 1}

\* a sample cut out of a longer file, with an odd number of ms left over
C32_Witness ==
  /\ sw_pc = "sampled"
  /\ audio_len > sample_duration_ms /\ sample_duration_ms > 0
  /\ (audio_len - sample_duration_ms) % 2 = 1
  /\ sample.start > 0 /\ MarginAfter = MarginBefore + 1

\* the tracks whose final status is a success (DownloadResult.is_success)
EndedInSuccess == {k \in 1..Len(tracks) : status[k] \in {"SUCCESS", "VERIFIED"}}

\* C33: after a complete run (here: one in which no call of the progress bar
\* raised) successful_downloads is the number of tracks whose final status is
\* SUCCESS or VERIFIED and failed_downloads is the number of the other
\* tracks; a track that ended VERIFICATION_FAILED is not among the successful
\* downloads.
C33_CountersMatchFinalStatuses ==
  (pc = "completed" /\ raised = {}) =>
    /\ stats.successful_downloads = Cardinality(EndedInSuccess)
    /\ stats.failed_downloads = Len(tracks) - Cardinality(EndedInSuccess)

\* the downloads verify_download has given a verdict on
Verdicts == stats.verified_downloads + stats.verification_failures

\* C34: at every point of the download loop verified_downloads +
\* verification_failures <= successful_downloads; after a complete run with
\* fingerprint_verification configured on in which no exception was raised
\* the two sides are equal; with fingerprint_verification off both
\* verification counters stay 0.
C34_VerdictsWithinSuccesses ==
  /\ Verdicts <= stats.successful_downloads
  /\ (pc = "completed" /\ raised = {} /\ cfg.fingerprint_verification)
       => Verdicts = stats.successful_downloads
  /\ ~cfg.fingerprint_verification
       => (stats.verified_downloads = 0 /\ stats.verification_failures = 0)

\* a run of two tracks with verification on is over without an exception:
\* both were downloaded, one was accepted and one rejected
C34_Witness ==
  /\ pc = "completed" /\ raised = {} /\ cfg.fingerprint_verification
  /\ stats.successful_downloads = 2
  /\ stats.verified_downloads = 1 /\ stats.verification_failures = 1

\* C35: whenever download_track returns SUCCESS, a file of non-zero size is
\* at the returned file_path, for a file found by the existence check as for
\* one just downloaded, also in a later session after an attempt that failed
\* and left an empty or partial file at the canonical path.
C35_SuccessHasNonEmptyFile ==
  (Returned /\ result.status = "SUCCESS")
    => files[result.file_path] \in {"partial", "full"}

\* the running download_track has searched and downloaded the file it returns
OwnSearchAndDownload ==
  /\ log # <<>>
  /\ log[Len(log)].op = "download" /\ log[Len(log)].out = "path"
  /\ \E n \in 1..Len(log) : log[n].op = "search" /\ log[n].out = "found"

\* C36: within one session no track is reported SUCCESS because of the file
\* of another track: in the first session over a folder, which starts without
\* files, every file was produced in that session, each track is processed
\* once, and so every SUCCESS comes from a search and a download made for the
\* track itself, also when two tracks of distinct spotify_id have the same
\* canonical file name.
C36_NoSuccessFromAnotherTracksFile ==
  (session = 1 /\ Returned /\ result.status = "SUCCESS") => OwnSearchAndDownload

\* C37: a track becomes VERIFIED, and verified_downloads is raised, only
\* after the identity service identified its file and matches_track accepted
\* the identification, which takes an active verifier: a verification that
\* was skipped because the verifier is not active never yields VERIFIED.
C37_VerifiedOnlyByIdentification ==
  ~cfg.verifier_enabled =>
    /\ \A k \in 1..Len(tracks) : status[k] # "VERIFIED"
    /\ result.status # "VERIFIED"
    /\ stats.verified_downloads = 0

\* the verdicts of the verifier
Verdict == {"VERIFIED", "VERIFICATION_FAILED"}

\* C38: the verifier is invoked for a track at most once, only after
\* download_track returned a success result with a file path for that same
\* track, and only when fingerprint_verification is configured on; it is
\* never invoked for a track whose download FAILED or is not yet over.  (The
\* invocation is the step that leaves the position "verify".)
C38_VerifierInvokedOnceAfterSuccess ==
  [][/\ pc' = "verify" =>
          /\ pc = "stats" /\ i' = i /\ result' = result
          /\ handed # <<>> /\ handed[Len(handed)] = i
          /\ result.status = "SUCCESS" /\ status[i] = "SUCCESS"
          /\ result.file_path = to_filename(Track)
          /\ cfg.fingerprint_verification
     /\ pc = "verify" =>
          /\ pc' = "progress" /\ i' = i
          /\ status'[i] \in Verdict
     /\ (status[i] \in Verdict /\ session' = session /\ i' = i) =>
          (pc' # "verify" /\ status'[i] = status[i])
     /\ session' = session => i' >= i]_vars

\* the verifier is about to be invoked for the second track of a session
\* whose first track failed
C38_Witness ==
  /\ pc = "verify" /\ i = 2
  /\ status[1] = "FAILED" /\ status[2] = "SUCCESS"
  /\ stats.verified_downloads = 0 /\ stats.verification_failures = 0

\* the positions inside download_track
InCall == {"dt_start", "dt_search", "dt_download"}

\* a result download_track may return
WellFormedResult(res) ==
  \/ /\ res.status = "SUCCESS"
     /\ res.file_path # None
  \/ /\ res.status = "FAILED"
     /\ res.error_message # None
     /\ res.file_path = None

\* C39: download_track never raises to its caller: whatever fails in it (the
\* existence check, the file name, the query generation, a search, a run of
\* the download tool), a step of the call is followed by another step of the
\* call or by its return, never by the caller's exception handler, and every
\* result it returns is SUCCESS with a file_path or FAILED with an
\* error_message and no file_path.
C39_AlwaysReturnsWellFormedResult ==
  [][(pc \in InCall) =>
       /\ pc' \in InCall \cup {"stats"}
       /\ pc' = "stats" => WellFormedResult(result')]_vars

\* the query generation raised and the outer except clause returned FAILED
\* with the message of the exception
C39_Witness ==
  /\ Returned /\ log = <<>> /\ ~existed
  /\ result = DownloadResult("FAILED", None, TypeErrorMessage, None)

====
